---- MODULE Spec2Model ----
(***************************************************************************)
(* Bharat Breed Rakshask: the classification back end.                     *)
(*                                                                         *)
(*   ai-backend/utils/config.py            taxonomy and thresholds         *)
(*   ai-backend/models/multi_task_model.py predict_single and its helpers  *)
(*   ai-backend/api/main.py                enrichment and the endpoints    *)
(*   ai-backend/utils/dataset_manager.py   breed_to_idx                    *)
(*                                                                         *)
(* Scores and confidences are probabilities kept in thousandths: the       *)
(* integer 850 stands for 0.85.  Breed indices are 0-based as in the code; *)
(* a score vector is a function on 0..n-1.  Python dictionaries are        *)
(* functions on their key set, so "key in d" is "key \in DOMAIN d".        *)
(***************************************************************************)
EXTENDS Integers, Sequences, FiniteSets, TLC

VARIABLES
    \* ---- taxonomy look-ups (config.py, dataset_manager.py)
    breed_index,     \* the index handed to _get_breed_name
    breed_name,      \* the label it resolved to, or "none" before the call
    idx_back,        \* breed_to_idx[breed_name], or -1 before the look-up
    id_back,         \* ID_TO_BREED[breed_name] as <<kind, i>>, or <<>> before
    \* ---- one inference and its enrichment (multi_task_model.py, main.py)
    predictions,     \* what self.model.predict returned: task -> score vector
    results,         \* the dictionary predict_single returned (the caller's)
    enhanced,        \* the dictionary enhance_prediction_results returned
    stage,           \* which of the steps above has run
    \* ---- _get_top_k_breeds on a vector of any length
    scores,          \* breed_predictions[0]
    top_k,           \* the returned list, or <<"none">> before the call
    \* ---- one classifier instance and the calls made on it
    classifier,      \* the instance: is self.model set, has it been compiled
    call,            \* the last call made on it and how it ended
    image,           \* the array the caller passes to predict_single
    \* ---- the output layers of the network (build_model)
    heads,           \* the five heads' inputs to softmax and their outputs
    \* ---- the training-data scripts (quality_control.py, dataset_manager.py)
    qc,              \* one run of validate_training_data
    dataset,         \* one run of process_all_datasets
    \* ---- the serving process (main.py)
    model,           \* the global model handle
    started,         \* startup_event has returned
    clients,         \* how many requests the clients keep in flight
    req,             \* request slot -> the request handled there
    running          \* the slot whose handler the event loop is running, or 0

taxVars  == <<breed_index, breed_name, idx_back, id_back>>
pipeVars == <<predictions, results, enhanced>>
topkVars == <<scores, top_k>>
clfVars  == <<classifier, call, image>>
toolVars == <<heads, qc, dataset>>
srvVars  == <<model, started, clients, req, running>>
vars     == <<breed_index, breed_name, idx_back, id_back,
              predictions, results, enhanced, stage,
              scores, top_k, classifier, call, image, heads, qc, dataset,
              model, started, clients, req, running>>

-----------------------------------------------------------------------------
(* Bounds of the model.                                                    *)

\* most images in one input array of predict_single
MaxImages == 2
\* largest input to a softmax, in steps of ln 2 above the smallest
MaxLogit == 5
\* bits after the binary point of a score: the 24-bit significand of float32
MantissaBits == 24
\* how many of TrainingCatalogue may lie in the training directory
NumRecordKinds == 25
\* most files in the training directory
MaxTrainFiles == 2
\* how many of FolderCatalogue may lie in the raw data directory
NumFolderKinds == 11
\* most breed folders in the raw data directory
MaxFolders == 2
\* how many of BreedCandidates may carry a non-zero breed score
NumCand == 5
\* how many of TaskProfiles are drawn for the four small heads
NumTaskProfiles == 4
\* longest vector handed to _get_top_k_breeds on its own
MaxLen == 4
\* largest score of such a vector
MaxScore == 2

Min(a, b) == IF a <= b THEN a ELSE b

\* Python strings whose characters matter (file extensions, annotation
\* values, folder names) are sequences of code points.  The tables are
\* those of the interpreter's Unicode database (Unicode 14.0).

\* the printable ASCII characters, from the space (code point 32) on; the
\* grave accent (code point 96), which a string cannot hold, is written
\* U+0060
ASCII ==
    << " ", "!", "\"", "#", "$", "%", "&", "'", "(", ")", "*", "+", ",", "-", ".", "/",
       "0", "1", "2", "3", "4", "5", "6", "7", "8", "9", ":", ";", "<", "=", ">", "?",
       "@", "A", "B", "C", "D", "E", "F", "G", "H", "I", "J", "K", "L", "M", "N", "O",
       "P", "Q", "R", "S", "T", "U", "V", "W", "X", "Y", "Z", "[", "\\", "]", "^", "_",
       "U+0060", "a", "b", "c", "d", "e", "f", "g", "h", "i", "j", "k", "l", "m", "n", "o",
       "p", "q", "r", "s", "t", "u", "v", "w", "x", "y", "z", "{", "|", "}", "~" >>

\* ord(ch) for a printable ASCII character or a tab
ord(ch) ==
    IF ch = "\t" THEN 9
    ELSE 31 + (CHOOSE n \in 1..Len(ASCII) : ASCII[n] = ch)

\* the code points of a string written character by character
Spell(chars) == [n \in 1..Len(chars) |-> ord(chars[n])]

\* the code points for which str.isspace holds: what str.strip() takes off
WHITESPACE ==
    << <<9, 13>>, <<28, 32>>, <<133, 133>>, <<160, 160>>, <<5760, 5760>>,
       <<8192, 8202>>, <<8232, 8233>>, <<8239, 8239>>, <<8287, 8287>>, <<12288, 12288>> >>

\* the cased code points (Lu, Ll, Lt, Other_Uppercase, Other_Lowercase), as
\* ranges <<first, last>>
CASED ==
    << <<65, 90>>, <<97, 122>>, <<170, 170>>, <<181, 181>>, <<186, 186>>,
       <<192, 214>>, <<216, 246>>, <<248, 442>>, <<444, 447>>, <<452, 659>>,
       <<661, 696>>, <<704, 705>>, <<736, 740>>, <<837, 837>>, <<880, 883>>,
       <<886, 887>>, <<890, 893>>, <<895, 895>>, <<902, 902>>, <<904, 906>>,
       <<908, 908>>, <<910, 929>>, <<931, 1013>>, <<1015, 1153>>, <<1162, 1327>>,
       <<1329, 1366>>, <<1376, 1416>>, <<4256, 4293>>, <<4295, 4295>>, <<4301, 4301>>,
       <<4304, 4346>>, <<4349, 4351>>, <<5024, 5109>>, <<5112, 5117>>, <<7296, 7304>>,
       <<7312, 7354>>, <<7357, 7359>>, <<7424, 7615>>, <<7680, 7957>>, <<7960, 7965>>,
       <<7968, 8005>>, <<8008, 8013>>, <<8016, 8023>>, <<8025, 8025>>, <<8027, 8027>>,
       <<8029, 8029>>, <<8031, 8061>>, <<8064, 8116>>, <<8118, 8124>>, <<8126, 8126>>,
       <<8130, 8132>>, <<8134, 8140>>, <<8144, 8147>>, <<8150, 8155>>, <<8160, 8172>>,
       <<8178, 8180>>, <<8182, 8188>>, <<8305, 8305>>, <<8319, 8319>>, <<8336, 8348>>,
       <<8450, 8450>>, <<8455, 8455>>, <<8458, 8467>>, <<8469, 8469>>, <<8473, 8477>>,
       <<8484, 8484>>, <<8486, 8486>>, <<8488, 8488>>, <<8490, 8493>>, <<8495, 8500>>,
       <<8505, 8505>>, <<8508, 8511>>, <<8517, 8521>>, <<8526, 8526>>, <<8544, 8575>>,
       <<8579, 8580>>, <<9398, 9449>>, <<11264, 11492>>, <<11499, 11502>>, <<11506, 11507>>,
       <<11520, 11557>>, <<11559, 11559>>, <<11565, 11565>>, <<42560, 42605>>, <<42624, 42653>>,
       <<42786, 42887>>, <<42891, 42894>>, <<42896, 42954>>, <<42960, 42961>>, <<42963, 42963>>,
       <<42965, 42969>>, <<42997, 42998>>, <<43000, 43002>>, <<43824, 43866>>, <<43868, 43880>>,
       <<43888, 43967>>, <<64256, 64262>>, <<64275, 64279>>, <<65313, 65338>>, <<65345, 65370>>,
       <<66560, 66639>>, <<66736, 66771>>, <<66776, 66811>>, <<66928, 66938>>, <<66940, 66954>>,
       <<66956, 66962>>, <<66964, 66965>>, <<66967, 66977>>, <<66979, 66993>>, <<66995, 67001>>,
       <<67003, 67004>>, <<67456, 67456>>, <<67459, 67461>>, <<67463, 67504>>, <<67506, 67514>>,
       <<68736, 68786>>, <<68800, 68850>>, <<71840, 71903>>, <<93760, 93823>>, <<119808, 119892>>,
       <<119894, 119964>>, <<119966, 119967>>, <<119970, 119970>>, <<119973, 119974>>, <<119977, 119980>>,
       <<119982, 119993>>, <<119995, 119995>>, <<119997, 120003>>, <<120005, 120069>>, <<120071, 120074>>,
       <<120077, 120084>>, <<120086, 120092>>, <<120094, 120121>>, <<120123, 120126>>, <<120128, 120132>>,
       <<120134, 120134>>, <<120138, 120144>>, <<120146, 120485>>, <<120488, 120512>>, <<120514, 120538>>,
       <<120540, 120570>>, <<120572, 120596>>, <<120598, 120628>>, <<120630, 120654>>, <<120656, 120686>>,
       <<120688, 120712>>, <<120714, 120744>>, <<120746, 120770>>, <<120772, 120779>>, <<122624, 122633>>,
       <<122635, 122654>>, <<125184, 125251>>, <<127280, 127305>>, <<127312, 127337>>, <<127344, 127369>> >>

\* the case-ignorable code points, as ranges <<first, last>>
CASE_IGNORABLE ==
    << <<39, 39>>, <<46, 46>>, <<58, 58>>, <<94, 94>>, <<96, 96>>,
       <<168, 168>>, <<173, 173>>, <<175, 175>>, <<180, 180>>, <<183, 184>>,
       <<688, 879>>, <<884, 885>>, <<890, 890>>, <<900, 901>>, <<903, 903>>,
       <<1155, 1161>>, <<1369, 1369>>, <<1375, 1375>>, <<1425, 1469>>, <<1471, 1471>>,
       <<1473, 1474>>, <<1476, 1477>>, <<1479, 1479>>, <<1524, 1524>>, <<1536, 1541>>,
       <<1552, 1562>>, <<1564, 1564>>, <<1600, 1600>>, <<1611, 1631>>, <<1648, 1648>>,
       <<1750, 1757>>, <<1759, 1768>>, <<1770, 1773>>, <<1807, 1807>>, <<1809, 1809>>,
       <<1840, 1866>>, <<1958, 1968>>, <<2027, 2037>>, <<2042, 2042>>, <<2045, 2045>>,
       <<2070, 2093>>, <<2137, 2139>>, <<2184, 2184>>, <<2192, 2193>>, <<2200, 2207>>,
       <<2249, 2306>>, <<2362, 2362>>, <<2364, 2364>>, <<2369, 2376>>, <<2381, 2381>>,
       <<2385, 2391>>, <<2402, 2403>>, <<2417, 2417>>, <<2433, 2433>>, <<2492, 2492>>,
       <<2497, 2500>>, <<2509, 2509>>, <<2530, 2531>>, <<2558, 2558>>, <<2561, 2562>>,
       <<2620, 2620>>, <<2625, 2626>>, <<2631, 2632>>, <<2635, 2637>>, <<2641, 2641>>,
       <<2672, 2673>>, <<2677, 2677>>, <<2689, 2690>>, <<2748, 2748>>, <<2753, 2757>>,
       <<2759, 2760>>, <<2765, 2765>>, <<2786, 2787>>, <<2810, 2815>>, <<2817, 2817>>,
       <<2876, 2876>>, <<2879, 2879>>, <<2881, 2884>>, <<2893, 2893>>, <<2901, 2902>>,
       <<2914, 2915>>, <<2946, 2946>>, <<3008, 3008>>, <<3021, 3021>>, <<3072, 3072>>,
       <<3076, 3076>>, <<3132, 3132>>, <<3134, 3136>>, <<3142, 3144>>, <<3146, 3149>>,
       <<3157, 3158>>, <<3170, 3171>>, <<3201, 3201>>, <<3260, 3260>>, <<3263, 3263>>,
       <<3270, 3270>>, <<3276, 3277>>, <<3298, 3299>>, <<3328, 3329>>, <<3387, 3388>>,
       <<3393, 3396>>, <<3405, 3405>>, <<3426, 3427>>, <<3457, 3457>>, <<3530, 3530>>,
       <<3538, 3540>>, <<3542, 3542>>, <<3633, 3633>>, <<3636, 3642>>, <<3654, 3662>>,
       <<3761, 3761>>, <<3764, 3772>>, <<3782, 3782>>, <<3784, 3789>>, <<3864, 3865>>,
       <<3893, 3893>>, <<3895, 3895>>, <<3897, 3897>>, <<3953, 3966>>, <<3968, 3972>>,
       <<3974, 3975>>, <<3981, 3991>>, <<3993, 4028>>, <<4038, 4038>>, <<4141, 4144>>,
       <<4146, 4151>>, <<4153, 4154>>, <<4157, 4158>>, <<4184, 4185>>, <<4190, 4192>>,
       <<4209, 4212>>, <<4226, 4226>>, <<4229, 4230>>, <<4237, 4237>>, <<4253, 4253>>,
       <<4348, 4348>>, <<4957, 4959>>, <<5906, 5908>>, <<5938, 5939>>, <<5970, 5971>>,
       <<6002, 6003>>, <<6068, 6069>>, <<6071, 6077>>, <<6086, 6086>>, <<6089, 6099>>,
       <<6103, 6103>>, <<6109, 6109>>, <<6155, 6159>>, <<6211, 6211>>, <<6277, 6278>>,
       <<6313, 6313>>, <<6432, 6434>>, <<6439, 6440>>, <<6450, 6450>>, <<6457, 6459>>,
       <<6679, 6680>>, <<6683, 6683>>, <<6742, 6742>>, <<6744, 6750>>, <<6752, 6752>>,
       <<6754, 6754>>, <<6757, 6764>>, <<6771, 6780>>, <<6783, 6783>>, <<6823, 6823>>,
       <<6832, 6862>>, <<6912, 6915>>, <<6964, 6964>>, <<6966, 6970>>, <<6972, 6972>>,
       <<6978, 6978>>, <<7019, 7027>>, <<7040, 7041>>, <<7074, 7077>>, <<7080, 7081>>,
       <<7083, 7085>>, <<7142, 7142>>, <<7144, 7145>>, <<7149, 7149>>, <<7151, 7153>>,
       <<7212, 7219>>, <<7222, 7223>>, <<7288, 7293>>, <<7376, 7378>>, <<7380, 7392>>,
       <<7394, 7400>>, <<7405, 7405>>, <<7412, 7412>>, <<7416, 7417>>, <<7468, 7530>>,
       <<7544, 7544>>, <<7579, 7679>>, <<8125, 8125>>, <<8127, 8129>>, <<8141, 8143>>,
       <<8157, 8159>>, <<8173, 8175>>, <<8189, 8190>>, <<8203, 8207>>, <<8216, 8217>>,
       <<8228, 8228>>, <<8231, 8231>>, <<8234, 8238>>, <<8288, 8292>>, <<8294, 8303>>,
       <<8305, 8305>>, <<8319, 8319>>, <<8336, 8348>>, <<8400, 8432>>, <<11388, 11389>>,
       <<11503, 11505>>, <<11631, 11631>>, <<11647, 11647>>, <<11744, 11775>>, <<11823, 11823>>,
       <<12293, 12293>>, <<12330, 12333>>, <<12337, 12341>>, <<12347, 12347>>, <<12441, 12446>>,
       <<12540, 12542>>, <<40981, 40981>>, <<42232, 42237>>, <<42508, 42508>>, <<42607, 42610>>,
       <<42612, 42621>>, <<42623, 42623>>, <<42652, 42655>>, <<42736, 42737>>, <<42752, 42785>>,
       <<42864, 42864>>, <<42888, 42890>>, <<42994, 42996>>, <<43000, 43001>>, <<43010, 43010>>,
       <<43014, 43014>>, <<43019, 43019>>, <<43045, 43046>>, <<43052, 43052>>, <<43204, 43205>>,
       <<43232, 43249>>, <<43263, 43263>>, <<43302, 43309>>, <<43335, 43345>>, <<43392, 43394>>,
       <<43443, 43443>>, <<43446, 43449>>, <<43452, 43453>>, <<43471, 43471>>, <<43493, 43494>>,
       <<43561, 43566>>, <<43569, 43570>>, <<43573, 43574>>, <<43587, 43587>>, <<43596, 43596>>,
       <<43632, 43632>>, <<43644, 43644>>, <<43696, 43696>>, <<43698, 43700>>, <<43703, 43704>>,
       <<43710, 43711>>, <<43713, 43713>>, <<43741, 43741>>, <<43756, 43757>>, <<43763, 43764>>,
       <<43766, 43766>>, <<43867, 43871>>, <<43881, 43883>>, <<44005, 44005>>, <<44008, 44008>>,
       <<44013, 44013>>, <<64286, 64286>>, <<64434, 64450>>, <<65024, 65039>>, <<65043, 65043>>,
       <<65056, 65071>>, <<65106, 65106>>, <<65109, 65109>>, <<65279, 65279>>, <<65287, 65287>>,
       <<65294, 65294>>, <<65306, 65306>>, <<65342, 65342>>, <<65344, 65344>>, <<65392, 65392>>,
       <<65438, 65439>>, <<65507, 65507>>, <<65529, 65531>>, <<66045, 66045>>, <<66272, 66272>>,
       <<66422, 66426>>, <<67456, 67461>>, <<67463, 67504>>, <<67506, 67514>>, <<68097, 68099>>,
       <<68101, 68102>>, <<68108, 68111>>, <<68152, 68154>>, <<68159, 68159>>, <<68325, 68326>>,
       <<68900, 68903>>, <<69291, 69292>>, <<69446, 69456>>, <<69506, 69509>>, <<69633, 69633>>,
       <<69688, 69702>>, <<69744, 69744>>, <<69747, 69748>>, <<69759, 69761>>, <<69811, 69814>>,
       <<69817, 69818>>, <<69821, 69821>>, <<69826, 69826>>, <<69837, 69837>>, <<69888, 69890>>,
       <<69927, 69931>>, <<69933, 69940>>, <<70003, 70003>>, <<70016, 70017>>, <<70070, 70078>>,
       <<70089, 70092>>, <<70095, 70095>>, <<70191, 70193>>, <<70196, 70196>>, <<70198, 70199>>,
       <<70206, 70206>>, <<70367, 70367>>, <<70371, 70378>>, <<70400, 70401>>, <<70459, 70460>>,
       <<70464, 70464>>, <<70502, 70508>>, <<70512, 70516>>, <<70712, 70719>>, <<70722, 70724>>,
       <<70726, 70726>>, <<70750, 70750>>, <<70835, 70840>>, <<70842, 70842>>, <<70847, 70848>>,
       <<70850, 70851>>, <<71090, 71093>>, <<71100, 71101>>, <<71103, 71104>>, <<71132, 71133>>,
       <<71219, 71226>>, <<71229, 71229>>, <<71231, 71232>>, <<71339, 71339>>, <<71341, 71341>>,
       <<71344, 71349>>, <<71351, 71351>>, <<71453, 71455>>, <<71458, 71461>>, <<71463, 71467>>,
       <<71727, 71735>>, <<71737, 71738>>, <<71995, 71996>>, <<71998, 71998>>, <<72003, 72003>>,
       <<72148, 72151>>, <<72154, 72155>>, <<72160, 72160>>, <<72193, 72202>>, <<72243, 72248>>,
       <<72251, 72254>>, <<72263, 72263>>, <<72273, 72278>>, <<72281, 72283>>, <<72330, 72342>>,
       <<72344, 72345>>, <<72752, 72758>>, <<72760, 72765>>, <<72767, 72767>>, <<72850, 72871>>,
       <<72874, 72880>>, <<72882, 72883>>, <<72885, 72886>>, <<73009, 73014>>, <<73018, 73018>>,
       <<73020, 73021>>, <<73023, 73029>>, <<73031, 73031>>, <<73104, 73105>>, <<73109, 73109>>,
       <<73111, 73111>>, <<73459, 73460>>, <<78896, 78904>>, <<92912, 92916>>, <<92976, 92982>>,
       <<92992, 92995>>, <<94031, 94031>>, <<94095, 94111>>, <<94176, 94177>>, <<94179, 94180>>,
       <<110576, 110579>>, <<110581, 110587>>, <<110589, 110590>>, <<113821, 113822>>, <<113824, 113827>>,
       <<118528, 118573>>, <<118576, 118598>>, <<119143, 119145>>, <<119155, 119170>>, <<119173, 119179>>,
       <<119210, 119213>>, <<119362, 119364>>, <<121344, 121398>>, <<121403, 121452>>, <<121461, 121461>>,
       <<121476, 121476>>, <<121499, 121503>>, <<121505, 121519>>, <<122880, 122886>>, <<122888, 122904>>,
       <<122907, 122913>>, <<122915, 122916>>, <<122918, 122922>>, <<123184, 123197>>, <<123566, 123566>>,
       <<123628, 123631>>, <<125136, 125142>>, <<125252, 125259>>, <<127995, 127999>>, <<917505, 917505>>,
       <<917536, 917631>>, <<917760, 917999>> >>

\* the one-character lower-case mappings: <<first, last, step, delta>>
\* says that every step-th code point c from first to last maps to c + delta
LOWER_MAP ==
    << <<65, 90, 1, 32>>, <<192, 214, 1, 32>>, <<216, 222, 1, 32>>,
       <<256, 302, 2, 1>>, <<306, 310, 2, 1>>, <<313, 327, 2, 1>>,
       <<330, 374, 2, 1>>, <<376, 376, 1, -121>>, <<377, 381, 2, 1>>,
       <<385, 385, 1, 210>>, <<386, 388, 2, 1>>, <<390, 390, 1, 206>>,
       <<391, 391, 1, 1>>, <<393, 394, 1, 205>>, <<395, 395, 1, 1>>,
       <<398, 398, 1, 79>>, <<399, 399, 1, 202>>, <<400, 400, 1, 203>>,
       <<401, 401, 1, 1>>, <<403, 403, 1, 205>>, <<404, 404, 1, 207>>,
       <<406, 406, 1, 211>>, <<407, 407, 1, 209>>, <<408, 408, 1, 1>>,
       <<412, 412, 1, 211>>, <<413, 413, 1, 213>>, <<415, 415, 1, 214>>,
       <<416, 420, 2, 1>>, <<422, 422, 1, 218>>, <<423, 423, 1, 1>>,
       <<425, 425, 1, 218>>, <<428, 428, 1, 1>>, <<430, 430, 1, 218>>,
       <<431, 431, 1, 1>>, <<433, 434, 1, 217>>, <<435, 437, 2, 1>>,
       <<439, 439, 1, 219>>, <<440, 440, 1, 1>>, <<444, 444, 1, 1>>,
       <<452, 452, 1, 2>>, <<453, 453, 1, 1>>, <<455, 455, 1, 2>>,
       <<456, 456, 1, 1>>, <<458, 458, 1, 2>>, <<459, 475, 2, 1>>,
       <<478, 494, 2, 1>>, <<497, 497, 1, 2>>, <<498, 500, 2, 1>>,
       <<502, 502, 1, -97>>, <<503, 503, 1, -56>>, <<504, 542, 2, 1>>,
       <<544, 544, 1, -130>>, <<546, 562, 2, 1>>, <<570, 570, 1, 10795>>,
       <<571, 571, 1, 1>>, <<573, 573, 1, -163>>, <<574, 574, 1, 10792>>,
       <<577, 577, 1, 1>>, <<579, 579, 1, -195>>, <<580, 580, 1, 69>>,
       <<581, 581, 1, 71>>, <<582, 590, 2, 1>>, <<880, 882, 2, 1>>,
       <<886, 886, 1, 1>>, <<895, 895, 1, 116>>, <<902, 902, 1, 38>>,
       <<904, 906, 1, 37>>, <<908, 908, 1, 64>>, <<910, 911, 1, 63>>,
       <<913, 929, 1, 32>>, <<931, 939, 1, 32>>, <<975, 975, 1, 8>>,
       <<984, 1006, 2, 1>>, <<1012, 1012, 1, -60>>, <<1015, 1015, 1, 1>>,
       <<1017, 1017, 1, -7>>, <<1018, 1018, 1, 1>>, <<1021, 1023, 1, -130>>,
       <<1024, 1039, 1, 80>>, <<1040, 1071, 1, 32>>, <<1120, 1152, 2, 1>>,
       <<1162, 1214, 2, 1>>, <<1216, 1216, 1, 15>>, <<1217, 1229, 2, 1>>,
       <<1232, 1326, 2, 1>>, <<1329, 1366, 1, 48>>, <<4256, 4293, 1, 7264>>,
       <<4295, 4295, 1, 7264>>, <<4301, 4301, 1, 7264>>, <<5024, 5103, 1, 38864>>,
       <<5104, 5109, 1, 8>>, <<7312, 7354, 1, -3008>>, <<7357, 7359, 1, -3008>>,
       <<7680, 7828, 2, 1>>, <<7838, 7838, 1, -7615>>, <<7840, 7934, 2, 1>>,
       <<7944, 7951, 1, -8>>, <<7960, 7965, 1, -8>>, <<7976, 7983, 1, -8>>,
       <<7992, 7999, 1, -8>>, <<8008, 8013, 1, -8>>, <<8025, 8031, 2, -8>>,
       <<8040, 8047, 1, -8>>, <<8072, 8079, 1, -8>>, <<8088, 8095, 1, -8>>,
       <<8104, 8111, 1, -8>>, <<8120, 8121, 1, -8>>, <<8122, 8123, 1, -74>>,
       <<8124, 8124, 1, -9>>, <<8136, 8139, 1, -86>>, <<8140, 8140, 1, -9>>,
       <<8152, 8153, 1, -8>>, <<8154, 8155, 1, -100>>, <<8168, 8169, 1, -8>>,
       <<8170, 8171, 1, -112>>, <<8172, 8172, 1, -7>>, <<8184, 8185, 1, -128>>,
       <<8186, 8187, 1, -126>>, <<8188, 8188, 1, -9>>, <<8486, 8486, 1, -7517>>,
       <<8490, 8490, 1, -8383>>, <<8491, 8491, 1, -8262>>, <<8498, 8498, 1, 28>>,
       <<8544, 8559, 1, 16>>, <<8579, 8579, 1, 1>>, <<9398, 9423, 1, 26>>,
       <<11264, 11311, 1, 48>>, <<11360, 11360, 1, 1>>, <<11362, 11362, 1, -10743>>,
       <<11363, 11363, 1, -3814>>, <<11364, 11364, 1, -10727>>, <<11367, 11371, 2, 1>>,
       <<11373, 11373, 1, -10780>>, <<11374, 11374, 1, -10749>>, <<11375, 11375, 1, -10783>>,
       <<11376, 11376, 1, -10782>>, <<11378, 11378, 1, 1>>, <<11381, 11381, 1, 1>>,
       <<11390, 11391, 1, -10815>>, <<11392, 11490, 2, 1>>, <<11499, 11501, 2, 1>>,
       <<11506, 11506, 1, 1>>, <<42560, 42604, 2, 1>>, <<42624, 42650, 2, 1>>,
       <<42786, 42798, 2, 1>>, <<42802, 42862, 2, 1>>, <<42873, 42875, 2, 1>>,
       <<42877, 42877, 1, -35332>>, <<42878, 42886, 2, 1>>, <<42891, 42891, 1, 1>>,
       <<42893, 42893, 1, -42280>>, <<42896, 42898, 2, 1>>, <<42902, 42920, 2, 1>>,
       <<42922, 42922, 1, -42308>>, <<42923, 42923, 1, -42319>>, <<42924, 42924, 1, -42315>>,
       <<42925, 42925, 1, -42305>>, <<42926, 42926, 1, -42308>>, <<42928, 42928, 1, -42258>>,
       <<42929, 42929, 1, -42282>>, <<42930, 42930, 1, -42261>>, <<42931, 42931, 1, 928>>,
       <<42932, 42946, 2, 1>>, <<42948, 42948, 1, -48>>, <<42949, 42949, 1, -42307>>,
       <<42950, 42950, 1, -35384>>, <<42951, 42953, 2, 1>>, <<42960, 42960, 1, 1>>,
       <<42966, 42968, 2, 1>>, <<42997, 42997, 1, 1>>, <<65313, 65338, 1, 32>>,
       <<66560, 66599, 1, 40>>, <<66736, 66771, 1, 40>>, <<66928, 66938, 1, 39>>,
       <<66940, 66954, 1, 39>>, <<66956, 66962, 1, 39>>, <<66964, 66965, 1, 39>>,
       <<68736, 68786, 1, 64>>, <<71840, 71871, 1, 32>>, <<93760, 93791, 1, 32>>,
       <<125184, 125217, 1, 34>> >>

\* the lower-case mappings to more than one character
LOWER_FULL ==
    << <<304, <<105, 775>>>> >>

\* the one-character title-case mappings, as LOWER_MAP
TITLE_MAP ==
    << <<97, 122, 1, -32>>, <<181, 181, 1, 743>>, <<224, 246, 1, -32>>,
       <<248, 254, 1, -32>>, <<255, 255, 1, 121>>, <<257, 303, 2, -1>>,
       <<305, 305, 1, -232>>, <<307, 311, 2, -1>>, <<314, 328, 2, -1>>,
       <<331, 375, 2, -1>>, <<378, 382, 2, -1>>, <<383, 383, 1, -300>>,
       <<384, 384, 1, 195>>, <<387, 389, 2, -1>>, <<392, 392, 1, -1>>,
       <<396, 396, 1, -1>>, <<402, 402, 1, -1>>, <<405, 405, 1, 97>>,
       <<409, 409, 1, -1>>, <<410, 410, 1, 163>>, <<414, 414, 1, 130>>,
       <<417, 421, 2, -1>>, <<424, 424, 1, -1>>, <<429, 429, 1, -1>>,
       <<432, 432, 1, -1>>, <<436, 438, 2, -1>>, <<441, 441, 1, -1>>,
       <<445, 445, 1, -1>>, <<447, 447, 1, 56>>, <<452, 452, 1, 1>>,
       <<454, 454, 1, -1>>, <<455, 455, 1, 1>>, <<457, 457, 1, -1>>,
       <<458, 458, 1, 1>>, <<460, 476, 2, -1>>, <<477, 477, 1, -79>>,
       <<479, 495, 2, -1>>, <<497, 497, 1, 1>>, <<499, 501, 2, -1>>,
       <<505, 543, 2, -1>>, <<547, 563, 2, -1>>, <<572, 572, 1, -1>>,
       <<575, 576, 1, 10815>>, <<578, 578, 1, -1>>, <<583, 591, 2, -1>>,
       <<592, 592, 1, 10783>>, <<593, 593, 1, 10780>>, <<594, 594, 1, 10782>>,
       <<595, 595, 1, -210>>, <<596, 596, 1, -206>>, <<598, 599, 1, -205>>,
       <<601, 601, 1, -202>>, <<603, 603, 1, -203>>, <<604, 604, 1, 42319>>,
       <<608, 608, 1, -205>>, <<609, 609, 1, 42315>>, <<611, 611, 1, -207>>,
       <<613, 613, 1, 42280>>, <<614, 614, 1, 42308>>, <<616, 616, 1, -209>>,
       <<617, 617, 1, -211>>, <<618, 618, 1, 42308>>, <<619, 619, 1, 10743>>,
       <<620, 620, 1, 42305>>, <<623, 623, 1, -211>>, <<625, 625, 1, 10749>>,
       <<626, 626, 1, -213>>, <<629, 629, 1, -214>>, <<637, 637, 1, 10727>>,
       <<640, 640, 1, -218>>, <<642, 642, 1, 42307>>, <<643, 643, 1, -218>>,
       <<647, 647, 1, 42282>>, <<648, 648, 1, -218>>, <<649, 649, 1, -69>>,
       <<650, 651, 1, -217>>, <<652, 652, 1, -71>>, <<658, 658, 1, -219>>,
       <<669, 669, 1, 42261>>, <<670, 670, 1, 42258>>, <<837, 837, 1, 84>>,
       <<881, 883, 2, -1>>, <<887, 887, 1, -1>>, <<891, 893, 1, 130>>,
       <<940, 940, 1, -38>>, <<941, 943, 1, -37>>, <<945, 961, 1, -32>>,
       <<962, 962, 1, -31>>, <<963, 971, 1, -32>>, <<972, 972, 1, -64>>,
       <<973, 974, 1, -63>>, <<976, 976, 1, -62>>, <<977, 977, 1, -57>>,
       <<981, 981, 1, -47>>, <<982, 982, 1, -54>>, <<983, 983, 1, -8>>,
       <<985, 1007, 2, -1>>, <<1008, 1008, 1, -86>>, <<1009, 1009, 1, -80>>,
       <<1010, 1010, 1, 7>>, <<1011, 1011, 1, -116>>, <<1013, 1013, 1, -96>>,
       <<1016, 1016, 1, -1>>, <<1019, 1019, 1, -1>>, <<1072, 1103, 1, -32>>,
       <<1104, 1119, 1, -80>>, <<1121, 1153, 2, -1>>, <<1163, 1215, 2, -1>>,
       <<1218, 1230, 2, -1>>, <<1231, 1231, 1, -15>>, <<1233, 1327, 2, -1>>,
       <<1377, 1414, 1, -48>>, <<5112, 5117, 1, -8>>, <<7296, 7296, 1, -6254>>,
       <<7297, 7297, 1, -6253>>, <<7298, 7298, 1, -6244>>, <<7299, 7300, 1, -6242>>,
       <<7301, 7301, 1, -6243>>, <<7302, 7302, 1, -6236>>, <<7303, 7303, 1, -6181>>,
       <<7304, 7304, 1, 35266>>, <<7545, 7545, 1, 35332>>, <<7549, 7549, 1, 3814>>,
       <<7566, 7566, 1, 35384>>, <<7681, 7829, 2, -1>>, <<7835, 7835, 1, -59>>,
       <<7841, 7935, 2, -1>>, <<7936, 7943, 1, 8>>, <<7952, 7957, 1, 8>>,
       <<7968, 7975, 1, 8>>, <<7984, 7991, 1, 8>>, <<8000, 8005, 1, 8>>,
       <<8017, 8023, 2, 8>>, <<8032, 8039, 1, 8>>, <<8048, 8049, 1, 74>>,
       <<8050, 8053, 1, 86>>, <<8054, 8055, 1, 100>>, <<8056, 8057, 1, 128>>,
       <<8058, 8059, 1, 112>>, <<8060, 8061, 1, 126>>, <<8064, 8071, 1, 8>>,
       <<8080, 8087, 1, 8>>, <<8096, 8103, 1, 8>>, <<8112, 8113, 1, 8>>,
       <<8115, 8115, 1, 9>>, <<8126, 8126, 1, -7205>>, <<8131, 8131, 1, 9>>,
       <<8144, 8145, 1, 8>>, <<8160, 8161, 1, 8>>, <<8165, 8165, 1, 7>>,
       <<8179, 8179, 1, 9>>, <<8526, 8526, 1, -28>>, <<8560, 8575, 1, -16>>,
       <<8580, 8580, 1, -1>>, <<9424, 9449, 1, -26>>, <<11312, 11359, 1, -48>>,
       <<11361, 11361, 1, -1>>, <<11365, 11365, 1, -10795>>, <<11366, 11366, 1, -10792>>,
       <<11368, 11372, 2, -1>>, <<11379, 11379, 1, -1>>, <<11382, 11382, 1, -1>>,
       <<11393, 11491, 2, -1>>, <<11500, 11502, 2, -1>>, <<11507, 11507, 1, -1>>,
       <<11520, 11557, 1, -7264>>, <<11559, 11559, 1, -7264>>, <<11565, 11565, 1, -7264>>,
       <<42561, 42605, 2, -1>>, <<42625, 42651, 2, -1>>, <<42787, 42799, 2, -1>>,
       <<42803, 42863, 2, -1>>, <<42874, 42876, 2, -1>>, <<42879, 42887, 2, -1>>,
       <<42892, 42892, 1, -1>>, <<42897, 42899, 2, -1>>, <<42900, 42900, 1, 48>>,
       <<42903, 42921, 2, -1>>, <<42933, 42947, 2, -1>>, <<42952, 42954, 2, -1>>,
       <<42961, 42961, 1, -1>>, <<42967, 42969, 2, -1>>, <<42998, 42998, 1, -1>>,
       <<43859, 43859, 1, -928>>, <<43888, 43967, 1, -38864>>, <<65345, 65370, 1, -32>>,
       <<66600, 66639, 1, -40>>, <<66776, 66811, 1, -40>>, <<66967, 66977, 1, -39>>,
       <<66979, 66993, 1, -39>>, <<66995, 67001, 1, -39>>, <<67003, 67004, 1, -39>>,
       <<68800, 68850, 1, -64>>, <<71872, 71903, 1, -32>>, <<93792, 93823, 1, -32>>,
       <<125218, 125251, 1, -34>> >>

\* the title-case mappings to more than one character
TITLE_FULL ==
    << <<223, <<83, 115>>>>, <<329, <<700, 78>>>>, <<496, <<74, 780>>>>,
       <<912, <<921, 776, 769>>>>, <<944, <<933, 776, 769>>>>, <<1415, <<1333, 1410>>>>,
       <<7830, <<72, 817>>>>, <<7831, <<84, 776>>>>, <<7832, <<87, 778>>>>,
       <<7833, <<89, 778>>>>, <<7834, <<65, 702>>>>, <<8016, <<933, 787>>>>,
       <<8018, <<933, 787, 768>>>>, <<8020, <<933, 787, 769>>>>, <<8022, <<933, 787, 834>>>>,
       <<8114, <<8122, 837>>>>, <<8116, <<902, 837>>>>, <<8118, <<913, 834>>>>,
       <<8119, <<913, 834, 837>>>>, <<8130, <<8138, 837>>>>, <<8132, <<905, 837>>>>,
       <<8134, <<919, 834>>>>, <<8135, <<919, 834, 837>>>>, <<8146, <<921, 776, 768>>>>,
       <<8147, <<921, 776, 769>>>>, <<8150, <<921, 834>>>>, <<8151, <<921, 776, 834>>>>,
       <<8162, <<933, 776, 768>>>>, <<8163, <<933, 776, 769>>>>, <<8164, <<929, 787>>>>,
       <<8166, <<933, 834>>>>, <<8167, <<933, 776, 834>>>>, <<8178, <<8186, 837>>>>,
       <<8180, <<911, 837>>>>, <<8182, <<937, 834>>>>, <<8183, <<937, 834, 837>>>>,
       <<64256, <<70, 102>>>>, <<64257, <<70, 105>>>>, <<64258, <<70, 108>>>>,
       <<64259, <<70, 102, 105>>>>, <<64260, <<70, 102, 108>>>>, <<64261, <<83, 116>>>>,
       <<64262, <<83, 116>>>>, <<64275, <<1348, 1398>>>>, <<64276, <<1348, 1381>>>>,
       <<64277, <<1348, 1387>>>>, <<64278, <<1358, 1398>>>>, <<64279, <<1348, 1389>>>> >>

InRanges(c, ranges) ==
    \E n \in 1..Len(ranges) : ranges[n][1] <= c /\ c <= ranges[n][2]

isspace(c) == InRanges(c, WHITESPACE)

IsCased(c) == InRanges(c, CASED)

IsCaseIgnorable(c) == InRanges(c, CASE_IGNORABLE)

\* what a code point maps to under a table of one-character mappings
Mapped(c, map) ==
    LET hits == { n \in 1..Len(map) : /\ map[n][1] <= c /\ c <= map[n][2]
                                      /\ (c - map[n][1]) % map[n][3] = 0 }
    IN  IF hits = {} THEN c ELSE c + map[CHOOSE n \in hits : TRUE][4]

\* the characters a code point maps to: its entry in the table of mappings
\* to several characters, else its one-character mapping
MappedFull(c, full, map) ==
    LET hits == { n \in 1..Len(full) : full[n][1] = c }
    IN  IF hits = {} THEN << Mapped(c, map) >> ELSE full[CHOOSE n \in hits : TRUE][2]

ToLowerFull(c) == MappedFull(c, LOWER_FULL, LOWER_MAP)

ToTitleFull(c) == MappedFull(c, TITLE_FULL, TITLE_MAP)

\* A capital sigma (931) is final when, case-ignorable characters skipped,
\* a cased character stands before it and none after it.
final_sigma(text, i) ==
    LET before == { j \in 1..(i - 1) : ~IsCaseIgnorable(text[j]) }
        after  == { j \in (i + 1)..Len(text) : ~IsCaseIgnorable(text[j]) }
    IN  /\ before # {}
        /\ IsCased(text[CHOOSE j \in before : \A k \in before : k <= j])
        /\ \/ after = {}
           \/ ~IsCased(text[CHOOSE j \in after : \A k \in after : j <= k])

\* the lower case of the character at position i of text
lower_at(text, i) ==
    IF text[i] = 931
    THEN << IF final_sigma(text, i) THEN 962 ELSE 963 >>
    ELSE ToLowerFull(text[i])

RECURSIVE JoinUpTo(_, _)
JoinUpTo(parts, n) == IF n = 0 THEN << >> ELSE JoinUpTo(parts, n - 1) \o parts[n]

\* the concatenation of a sequence of strings
Join(parts) == JoinUpTo(parts, Len(parts))

\* str.lower
lower(text) == Join([i \in 1..Len(text) |-> lower_at(text, i)])

\* str.title: a character that follows a cased character is lower-cased,
\* every other character title-cased
title(text) ==
    Join([i \in 1..Len(text) |->
            IF i > 1 /\ IsCased(text[i - 1])
            THEN lower_at(text, i)
            ELSE ToTitleFull(text[i])])

\* str.strip
strip(text) ==
    LET inked == { n \in 1..Len(text) : ~isspace(text[n]) }
    IN  IF inked = {} THEN << >>
        ELSE LET first == CHOOSE n \in inked : \A m \in inked : n <= m
                 last == CHOOSE n \in inked : \A m \in inked : n >= m
             IN  SubSeq(text, first, last)

-----------------------------------------------------------------------------
(* config.py: the taxonomy.                                                *)

CATTLE_BREEDS ==
    << "Amritmahal", "Bachaur", "Bargur", "Dangi", "Deoni", "Gaolao", "Gir",
       "Hallikar", "Hariana", "Kangayam", "Kankrej", "Kherigarh", "Khillari",
       "Krishna Valley", "Malnad Gidda", "Malvi", "Mewati", "Nagori", "Nellore",
       "Nimari", "Ongole", "Ponwar", "Pulikulam", "Rathi", "Red Kandhari",
       "Red Sindhi", "Sahiwal", "Siri", "Tharparkar", "Umblachery", "Vechur",
       "Alambadi", "Bargur", "Belahi", "Binjharpuri", "Gangatiri", "Gobra",
       "Kachcha", "Kenwariya", "Kosali", "Lohani", "Malnad Gidda", "Mandvi",
       "Nagauri", "Palamedu", "Punganur", "Vadiya" >>

BUFFALO_BREEDS ==
    << "Bhadawari", "Jaffarabadi", "Mehsana", "Murrah", "Nili-Ravi", "Pandharpuri",
       "Surti", "Toda", "Bargur", "Kalahandi", "Marathwada", "Nagpuri", "Godavari",
       "Chilika", "Dibrugarh", "Jerangi", "Lakhimi", "Swamp Buffalo", "Tarai",
       "Banni", "Gojri", "Kundi", "Lime", "Manda", "Manipuri", "Nagpuri",
       "Sambalpuri", "Chhattisgarhi", "Dharwadi", "Ellichpur", "Pandharpuri" >>

\* list(AGE_RANGES.keys()): a dict keeps insertion order
AGE_KEYS == << "young", "adult", "mature", "old" >>

GENDER_CLASSES == << "male", "female" >>

\* the literal list indexed in predict_single
HEALTH_LEVELS == << "healthy", "moderate", "poor" >>

\* CONFIDENCE_THRESHOLDS, in thousandths
HIGH_CONFIDENCE   == 850
MEDIUM_CONFIDENCE == 650
LOW_CONFIDENCE    == 450

\* CATTLE_BREEDS + BUFFALO_BREEDS
all_breeds == CATTLE_BREEDS \o BUFFALO_BREEDS

\* MODEL_OUTPUTS["breed_classification"]
num_breeds == Len(CATTLE_BREEDS) + Len(BUFFALO_BREEDS)

\* A dictionary built by a comprehension over (key, value) pairs in order:
\* a later pair with the same key overwrites the earlier one, so each key
\* holds the value of the last pair that names it.
DictOf(pairs) ==
    [x \in { pairs[n][1] : n \in 1..Len(pairs) } |->
        pairs[CHOOSE n \in 1..Len(pairs) :
                 /\ pairs[n][1] = x
                 /\ \A m \in 1..Len(pairs) : m > n => pairs[m][1] # x][2]]

\* {f"cattle_{i}": breed ...} then {f"buffalo_{i}": breed ...}; the key
\* f"cattle_{i}" is kept as the pair <<"cattle", i>>.
BreedMappingItems ==
    [n \in 1..Len(CATTLE_BREEDS) |-> << <<"cattle", n - 1>>, CATTLE_BREEDS[n] >>]
    \o [n \in 1..Len(BUFFALO_BREEDS) |-> << <<"buffalo", n - 1>>, BUFFALO_BREEDS[n] >>]

BREED_MAPPING == DictOf(BreedMappingItems)

\* {v: k for k, v in BREED_MAPPING.items()}
ID_TO_BREED ==
    DictOf([n \in 1..Len(BreedMappingItems) |->
               << BreedMappingItems[n][2], BreedMappingItems[n][1] >>])

\* the position in all_breeds that a BREED_MAPPING key stands for
KeyIndex(key) ==
    IF key[1] = "cattle" THEN key[2] ELSE Len(CATTLE_BREEDS) + key[2]

\* dataset_manager.py: {breed: idx for idx, breed in enumerate(self.all_breeds)}
breed_to_idx ==
    DictOf([n \in 1..Len(all_breeds) |-> << all_breeds[n], n - 1 >>])

-----------------------------------------------------------------------------
(* multi_task_model.py: turning score vectors into labels.                 *)

VecLen(v) == Cardinality(DOMAIN v)

\* np.max
np_max(v) == CHOOSE m \in {v[i] : i \in DOMAIN v} : \A j \in DOMAIN v : v[j] <= m

\* a variant of np_argmax that breaks ties by the highest index
np_argmax_last(v) ==
    CHOOSE i \in DOMAIN v :
        /\ \A j \in DOMAIN v : v[j] <= v[i]
        /\ \A j \in DOMAIN v : j > i => v[j] < v[i]

\* np.argmax: the first index holding the maximum
np_argmax(v) ==
    CHOOSE i \in DOMAIN v :
        /\ \A j \in DOMAIN v : v[j] <= v[i]
        /\ \A j \in DOMAIN v : j < i => v[j] < v[i]

\* a variant of _get_breed_name that reads the list one position too far
_get_breed_name_off_by_one(breed_index_) ==
    IF 0 <= breed_index_ /\ breed_index_ + 1 < Len(all_breeds)
    THEN all_breeds[breed_index_ + 2]
    ELSE "Unknown"

_get_breed_name(breed_index_) ==
    IF 0 <= breed_index_ /\ breed_index_ < Len(all_breeds)
    THEN all_breeds[breed_index_ + 1]
    ELSE "Unknown"

\* how many entries the slice [-k:] keeps of an array of n: the last k for
\* k > 0 (all n when k > n), all n for k = 0 ([-0:] is [0:]), and all but
\* the first |k| for k < 0
SliceLen(n, k) ==
    IF k > 0 THEN Min(k, n)
    ELSE IF k = 0 THEN n
    ELSE IF n + k > 0 THEN n + k ELSE 0

\* the sequences of m indices of rest in descending order of v, equal
\* scores in any order
RECURSIVE Descending(_, _, _)
Descending(v, rest, m) ==
    IF m = 0 \/ rest = {} THEN { << >> }
    ELSE LET best == {i \in rest : \A j \in rest : v[j] <= v[i]}
         IN  UNION { { <<i>> \o t : t \in Descending(v, rest \ {i}, m - 1) }
                     : i \in best }

\* np.argsort(v)[-k:][::-1].  argsort's default sort is not stable, so the
\* order of equal scores is whatever the build's sort leaves: every index
\* sequence that some ascending order of v ends with, reversed, is possible.
TopIndices(v, rest, k) == Descending(v, rest, SliceLen(Cardinality(rest), k))

\* a variant of _get_top_k_breeds_of that rounds the confidences to two
\* decimals
_get_top_k_breeds_of_rounded(v, top_indices) ==
    [n \in 1..Len(top_indices) |->
        [breed |-> _get_breed_name(top_indices[n]),
         confidence |-> (v[top_indices[n]] \div 10) * 10]]

_get_top_k_breeds_of(v, top_indices) ==
    [n \in 1..Len(top_indices) |->
        [breed |-> _get_breed_name(top_indices[n]),
         confidence |-> v[top_indices[n]]]]

Reverse(seq) == [n \in 1..Len(seq) |-> seq[Len(seq) + 1 - n]]

\* a variant of _get_top_k_breeds without the final [::-1]
_get_top_k_breeds_unreversed(v, k) ==
    { _get_top_k_breeds_of(v, Reverse(t)) : t \in TopIndices(v, DOMAIN v, k) }

\* every list _get_top_k_breeds may return for v
_get_top_k_breeds(v, k) ==
    { _get_top_k_breeds_of(v, t) : t \in TopIndices(v, DOMAIN v, k) }

\* the results dictionary of predict_single, given the top_3 list computed
predict_single_of(p, top_3) ==
    [animal_type |->
        [prediction |-> IF np_argmax(p.animal_type) = 0 THEN "cattle" ELSE "buffalo",
         confidence |-> np_max(p.animal_type)],
     breed |->
        [prediction |-> _get_breed_name(np_argmax(p.breed)),
         confidence |-> np_max(p.breed),
         top_3      |-> top_3],
     age |->
        [prediction |-> AGE_KEYS[np_argmax(p.age) + 1],
         confidence |-> np_max(p.age)],
     gender |->
        [prediction |-> GENDER_CLASSES[np_argmax(p.gender) + 1],
         confidence |-> np_max(p.gender)],
     health |->
        [prediction |-> HEALTH_LEVELS[np_argmax(p.health) + 1],
         confidence |-> np_max(p.health)]]

\* every dictionary predict_single may return for the model output p
predict_single(p) ==
    { predict_single_of(p, t) : t \in _get_top_k_breeds(p.breed, 3) }

\* An array of shape (N, n) is the sequence of its N rows, each a vector on
\* 0..n-1.  np.argmax and np.max without an axis work on the flattened
\* array, row after row.
np_ravel(a) ==
    LET n == VecLen(a[1])
    IN  [k \in 0..(Len(a) * n - 1) |-> a[(k \div n) + 1][k % n]]

\* what a call on the classifier left behind: the exception it raised or
\* "none", and the value it returned
Raised(exc) == [raised |-> exc, returned |-> FALSE, value |-> << >>]

Returned(value) == [raised |-> "none", returned |-> TRUE, value |-> value]

\* predict_single on the arrays `a` that self.model.predict returned for an
\* input of N images (task -> array of shape (N, n)), given the top_3 list:
\* the results dictionary, or the IndexError of the first label list that
\* is read past its end
predict_single_arrays_of(a, top_3) ==
    LET animal_type == np_ravel(a.animal_type)
        breed       == np_ravel(a.breed)
        age         == np_ravel(a.age)
        gender      == np_ravel(a.gender)
        health      == np_ravel(a.health)
    IN  IF \/ np_argmax(age) >= Len(AGE_KEYS)
           \/ np_argmax(gender) >= Len(GENDER_CLASSES)
           \/ np_argmax(health) >= Len(HEALTH_LEVELS)
        THEN Raised("IndexError")
        ELSE Returned(
            [animal_type |->
                [prediction |-> IF np_argmax(animal_type) = 0 THEN "cattle" ELSE "buffalo",
                 confidence |-> np_max(animal_type)],
             breed |->
                [prediction |-> _get_breed_name(np_argmax(breed)),
                 confidence |-> np_max(breed),
                 top_3      |-> top_3],
             age |->
                [prediction |-> AGE_KEYS[np_argmax(age) + 1],
                 confidence |-> np_max(age)],
             gender |->
                [prediction |-> GENDER_CLASSES[np_argmax(gender) + 1],
                 confidence |-> np_max(gender)],
             health |->
                [prediction |-> HEALTH_LEVELS[np_argmax(health) + 1],
                 confidence |-> np_max(health)]])

\* every outcome of predict_single for such arrays; top_3 is taken from
\* breed_predictions[0], the first row
predict_single_arrays(a) ==
    { predict_single_arrays_of(a, t) : t \in _get_top_k_breeds(a.breed[1], 3) }

\* MODEL_OUTPUTS: the number of units of each head's output layer
MODEL_OUTPUTS ==
    [breed_classification |-> Len(CATTLE_BREEDS) + Len(BUFFALO_BREEDS),
     animal_type          |-> 2,
     age_estimation       |-> Len(AGE_KEYS),
     gender_detection     |-> Len(GENDER_CLASSES),
     health_assessment    |-> 3]

\* the units of the head of each task, as __init__ reads them
HeadUnits ==
    [animal_type |-> MODEL_OUTPUTS.animal_type,
     breed       |-> MODEL_OUTPUTS.breed_classification,
     age         |-> MODEL_OUTPUTS.age_estimation,
     gender      |-> MODEL_OUTPUTS.gender_detection,
     health      |-> MODEL_OUTPUTS.health_assessment]

\* 1.0 in units of 2^-MantissaBits
ONE == 2 ^ MantissaBits

RECURSIVE SumUpTo(_, _)
SumUpTo(v, n) == IF n < 0 THEN 0 ELSE v[n] + SumUpTo(v, n - 1)

\* the sum of the entries of a vector on 0..n-1
Sum(v) == SumUpTo(v, VecLen(v) - 1)

np_min(v) == CHOOSE m \in {v[i] : i \in DOMAIN v} : \A j \in DOMAIN v : m <= v[j]

\* e^(z - max z) for z in steps of ln 2.  These are powers of two, which
\* floating point holds exactly; they are kept as whole numbers, in units
\* of e^(min z - max z): the smallest input gives 1 and the largest
\* 2^(max z - min z).
Exponentials(z) ==
    [i \in DOMAIN z |-> 2 ^ (z[i] - np_min(z))]

\* A float32 is kept as [mantissa, places]: the value mantissa / 2^places
\* with a mantissa of MantissaBits bits, the first of them 1.

\* how often a is doubled until it is at least s
RECURSIVE Doublings(_, _)
Doublings(a, s) == IF a >= s THEN 0 ELSE 1 + Doublings(2 * a, s)

\* a / s for 0 < a <= s in float32: the quotient to MantissaBits significant
\* bits, rounded to nearest, a tie to the even mantissa.  The places after
\* the leading 1 are divided out in two halves, which keeps every product
\* small.
Quotient(a, s) ==
    LET p == Doublings(a, s)
        high == (MantissaBits - 1) \div 2
        low == MantissaBits - 1 - high
        r0 == a * 2 ^ p - s
        q1 == (r0 * 2 ^ high) \div s
        r1 == (r0 * 2 ^ high) % s
        q2 == (r1 * 2 ^ low) \div s
        r2 == (r1 * 2 ^ low) % s
        q == 2 ^ (MantissaBits - 1) + q1 * 2 ^ low + q2
        up == 2 * r2 > s \/ (2 * r2 = s /\ q % 2 = 1)
        m == IF up THEN q + 1 ELSE q
    IN  IF m = 2 ^ MantissaBits
        THEN [mantissa |-> 2 ^ (MantissaBits - 1), places |-> MantissaBits + p - 2]
        ELSE [mantissa |-> m, places |-> MantissaBits + p - 1]

\* an output layer that leaves the division by the sum out
softmax_unnormalised(z) ==
    LET e == Exponentials(z)
    IN  [i \in DOMAIN z |-> Quotient(e[i], 2 ^ (np_max(z) - np_min(z)))]

\* activation='softmax': the exponentials divided by their sum
softmax(z) ==
    LET e == Exponentials(z)
        s == Sum(e)
    IN  [i \in DOMAIN z |-> Quotient(e[i], s)]

-----------------------------------------------------------------------------
(* main.py: the enrichment layer.                                          *)

\* a variant of get_confidence_level whose bands are open at the lower bound
get_confidence_level_strict(confidence) ==
    IF confidence > HIGH_CONFIDENCE THEN "high"
    ELSE IF confidence > MEDIUM_CONFIDENCE THEN "medium"
    ELSE IF confidence > LOW_CONFIDENCE THEN "low"
    ELSE "uncertain"

get_confidence_level(confidence) ==
    IF confidence >= HIGH_CONFIDENCE THEN "high"
    ELSE IF confidence >= MEDIUM_CONFIDENCE THEN "medium"
    ELSE IF confidence >= LOW_CONFIDENCE THEN "low"
    ELSE "uncertain"

\* d[k] = v on a dictionary
SetKey(d, k, v) == [x \in DOMAIN d \cup {k} |-> IF x = k THEN v ELSE d[x]]

SUGGESTION == "Image quality may be poor or animal pose may not be optimal for classification"

\* a variant of AddConfidenceLevels that also rounds the confidence to two
\* decimals
AddConfidenceLevels_rounding(r) ==
    [task \in DOMAIN r |->
        IF "confidence" \in DOMAIN r[task]
        THEN SetKey(SetKey(r[task], "confidence", (r[task]["confidence"] \div 10) * 10),
                    "confidence_level",
                    get_confidence_level(r[task]["confidence"]))
        ELSE r[task]]

\* lines 155-158: the loop that adds confidence_level
AddConfidenceLevels(r) ==
    [task \in DOMAIN r |->
        IF "confidence" \in DOMAIN r[task]
        THEN SetKey(r[task], "confidence_level",
                    get_confidence_level(r[task]["confidence"]))
        ELSE r[task]]

\* a variant of AddBreedInfo that still asks for verification at the high
\* threshold itself
AddBreedInfo_le(b) ==
    IF b["confidence"] >= LOW_CONFIDENCE
    THEN SetKey(b, "needs_verification", b["confidence"] <= HIGH_CONFIDENCE)
    ELSE SetKey(SetKey(b, "needs_verification", TRUE), "suggestion", SUGGESTION)

\* a variant of AddBreedInfo that attaches the suggestion at the low
\* threshold itself
AddBreedInfo_gt(b) ==
    IF b["confidence"] > LOW_CONFIDENCE
    THEN SetKey(b, "needs_verification", b["confidence"] < HIGH_CONFIDENCE)
    ELSE SetKey(SetKey(b, "needs_verification", TRUE), "suggestion", SUGGESTION)

\* a variant of AddBreedInfo that asks for verification below the medium
\* threshold only
AddBreedInfo_medium(b) ==
    IF b["confidence"] >= LOW_CONFIDENCE
    THEN SetKey(b, "needs_verification", b["confidence"] < MEDIUM_CONFIDENCE)
    ELSE SetKey(SetKey(b, "needs_verification", TRUE), "suggestion", SUGGESTION)

\* lines 160-167: the breed entry
AddBreedInfo(b) ==
    IF b["confidence"] >= LOW_CONFIDENCE
    THEN SetKey(b, "needs_verification", b["confidence"] < HIGH_CONFIDENCE)
    ELSE SetKey(SetKey(b, "needs_verification", TRUE), "suggestion", SUGGESTION)

\* the dictionary enhance_prediction_results returns
enhance_prediction_results(r) ==
    LET e == AddConfidenceLevels(r)
    IN  [e EXCEPT !["breed"] = AddBreedInfo(e["breed"])]

-----------------------------------------------------------------------------
(* main.py: the global model handle.                                       *)

\* obj: the global `model` is an instance (not None); net: the instance's
\* self.model is a network (build_model has completed); compiled:
\* compile_model has completed.
NoModel == [obj |-> FALSE, net |-> FALSE, compiled |-> FALSE]

\* MultiTaskBovineClassifier.__init__ ends with self.model = None
Constructed == [net |-> FALSE, compiled |-> FALSE]

NoCall == [op |-> "none", raised |-> "none", returned |-> FALSE, value |-> << >>]

NoImage == [ndim |-> 0, images |-> << >>]

NoHeads == [logits |-> << >>, outputs |-> << >>]

NoRun ==
    [stdout |-> "utf-8:surrogateescape", training_dir |-> FALSE, status |-> "start",
     files |-> << >>, i |-> 0, validated_count |-> 0, rejected_count |-> 0,
     validated_dir |-> {}, rejected_dir |-> {}, incomplete |-> {}]

NoStats ==
    [total_images |-> 0, total_breeds |-> 0, cattle_images |-> 0, buffalo_images |-> 0,
     breed_distribution |-> << >>, dataset_sources |-> << >>, images_per_breed |-> << >>]

NoDataset ==
    [folders |-> << >>, i |-> 0, data_records |-> << >>, combined |-> << >>,
     csv |-> << >>, dataset_stats |-> NoStats, stats_file |-> "absent",
     outcome |-> "none"]

-----------------------------------------------------------------------------
(* Values the variables of a part hold while another part runs.            *)

TaxIdle  == breed_index = -1 /\ breed_name = "none" /\ idx_back = -1 /\ id_back = << >>
PipeIdle == predictions = << >> /\ results = << >> /\ enhanced = << >>
TopKIdle == scores = << >> /\ top_k = << "none" >>
ClfIdle  == classifier = Constructed /\ call = NoCall /\ image = NoImage
ToolIdle == heads = NoHeads /\ qc = NoRun /\ dataset = NoDataset
SrvIdle  == model = NoModel /\ started = FALSE /\ clients = 0 /\ req = << >> /\ running = 0

-----------------------------------------------------------------------------
(* Taxonomy look-ups: an index is resolved to its label by _get_breed_name *)
(* and the label is looked up again in breed_to_idx and ID_TO_BREED.       *)

TaxInit ==
    /\ breed_index \in 0..(num_breeds - 1)
    /\ breed_name = "none" /\ idx_back = -1 /\ id_back = << >>
    /\ stage = "index"
    /\ PipeIdle /\ TopKIdle /\ ClfIdle /\ ToolIdle /\ SrvIdle

ResolveName ==
    /\ stage = "index"
    /\ breed_name' = _get_breed_name(breed_index)
    /\ stage' = "name"
    /\ UNCHANGED <<breed_index, idx_back, id_back, pipeVars, topkVars, clfVars, toolVars, srvVars>>

ResolveIndex ==
    /\ stage = "name"
    /\ idx_back' = breed_to_idx[breed_name]
    /\ id_back' = ID_TO_BREED[breed_name]
    /\ stage' = "back"
    /\ UNCHANGED <<breed_index, breed_name, pipeVars, topkVars, clfVars, toolVars, srvVars>>

TaxNext == ResolveName \/ ResolveIndex

TaxSpec == TaxInit /\ [][TaxNext]_vars

-----------------------------------------------------------------------------
(* One inference: the five heads' score vectors, predict_single's          *)
(* post-processing of them, and enhance_prediction_results on the result.  *)

\* Breed indices that may carry a non-zero score: the first and the last
\* index, 2 and 32 and 55 (the three positions of "Bargur"), 46 and 47 (the
\* last cattle and the first buffalo position).
BreedCandidates == << 5, 0, 77, 2, 32, 6, 55, 46, 47, 14 >>

Cand == { BreedCandidates[n] : n \in 1..Min(NumCand, Len(BreedCandidates)) }

\* The non-zero scores of a breed vector (they sum to 1000); the other
\* entries of the vector are 0.
BreedProfiles ==
    { << 910,  40,  30,  20 >>,
      << 850, 100,  30,  20 >>,
      << 849, 101,  30,  20 >>,
      << 650, 200, 100,  50 >>,
      << 649, 201, 100,  50 >>,
      << 450, 450,  50,  50 >>,
      << 449, 251, 150, 150 >>,
      << 250, 250, 250, 250 >>,
      << 500, 500,   0,   0 >> }

Placements == { f \in [1..4 -> Cand] : \A a, b \in 1..4 : a # b => f[a] # f[b] }

BreedVector(profile, f) ==
    [i \in 0..(num_breeds - 1) |->
        IF \E s \in 1..4 : f[s] = i
        THEN profile[CHOOSE s \in 1..4 : f[s] = i]
        ELSE 0]

Vec(seq) == [i \in 0..(Len(seq) - 1) |-> seq[i + 1]]

\* Score vectors of the four small heads (each sums to 1000).
TaskProfiles ==
    << [animal_type |-> <<900, 100>>, age |-> <<700, 100, 100, 100>>,
        gender |-> <<500, 500>>,      health |-> <<850, 100, 50>>],
       [animal_type |-> <<100, 900>>, age |-> <<250, 250, 250, 250>>,
        gender |-> <<350, 650>>,      health |-> <<100, 450, 450>>],
       [animal_type |-> <<500, 500>>, age |-> <<100, 449, 449, 2>>,
        gender |-> <<151, 849>>,      health |-> <<0, 0, 1000>>],
       [animal_type |-> <<350, 650>>, age |-> <<0, 100, 250, 650>>,
        gender |-> <<1000, 0>>,       health |-> <<300, 350, 350>>],
       [animal_type |-> <<551, 449>>, age |-> <<50, 50, 850, 50>>,
        gender |-> <<649, 351>>,      health |-> <<449, 449, 102>>] >>

ModelOutputs ==
    { [animal_type |-> Vec(tp.animal_type),
       breed       |-> BreedVector(profile, f),
       age         |-> Vec(tp.age),
       gender      |-> Vec(tp.gender),
       health      |-> Vec(tp.health)] :
         tp \in { TaskProfiles[n] : n \in 1..Min(NumTaskProfiles, Len(TaskProfiles)) },
         profile \in BreedProfiles,
         f \in Placements }

PipeInit ==
    /\ predictions \in ModelOutputs
    /\ results = << >> /\ enhanced = << >>
    /\ stage = "raw"
    /\ TaxIdle /\ TopKIdle /\ ClfIdle /\ ToolIdle /\ SrvIdle

\* predict_single, after self.model.predict has returned `predictions`
PredictSingle ==
    /\ stage = "raw"
    /\ results' \in predict_single(predictions)
    /\ stage' = "predicted"
    /\ UNCHANGED <<predictions, enhanced, taxVars, topkVars, clfVars, toolVars, srvVars>>

\* enhanced = results.copy() is a shallow copy: the per-task dictionaries
\* of `enhanced` are the caller's own, so every key the function sets is
\* set in the caller's `results` as well.
Enhance ==
    /\ stage = "predicted"
    /\ enhanced' = enhance_prediction_results(results)
    /\ results' = [task \in DOMAIN results |-> enhanced'[task]]
    /\ stage' = "enhanced"
    /\ UNCHANGED <<predictions, taxVars, topkVars, clfVars, toolVars, srvVars>>

PipeNext == PredictSingle \/ Enhance

PipeSpec == PipeInit /\ [][PipeNext]_vars

-----------------------------------------------------------------------------
(* _get_top_k_breeds with k = 3 on score vectors of every length up to     *)
(* MaxLen.                                                                 *)

TopKInit ==
    /\ \E n \in 0..MaxLen : scores \in [0..(n - 1) -> 0..MaxScore]
    /\ top_k = << "none" >>
    /\ stage = "input"
    /\ TaxIdle /\ PipeIdle /\ ClfIdle /\ ToolIdle /\ SrvIdle

GetTopK ==
    /\ stage = "input"
    /\ top_k' \in _get_top_k_breeds(scores, 3)
    /\ stage' = "ranked"
    /\ UNCHANGED <<scores, taxVars, pipeVars, clfVars, toolVars, srvVars>>

TopKNext == GetTopK

TopKSpec == TopKInit /\ [][TopKNext]_vars

-----------------------------------------------------------------------------
(* The output layers of build_model: each head is a Dense layer of the     *)
(* task's number of units with a softmax activation.                       *)

\* the inputs to the softmax of a head of n units: first, last and the
\* entries between them
HeadLogits(n, first, last, between) ==
    [i \in 0..(n - 1) |-> IF i = 0 THEN first
                          ELSE IF i = n - 1 THEN last
                          ELSE between]

HeadTasks == {"animal_type", "breed", "age", "gender", "health"}

NetInit ==
    /\ \E first, last, between \in 0..MaxLogit :
          heads = [logits  |-> [task \in HeadTasks |->
                                  HeadLogits(HeadUnits[task], first, last, between)],
                   outputs |-> << >>]
    /\ qc = NoRun /\ dataset = NoDataset
    /\ stage = "logits"
    /\ TaxIdle /\ PipeIdle /\ TopKIdle /\ ClfIdle /\ SrvIdle

\* the five output layers on their inputs
Forward ==
    /\ stage = "logits"
    /\ heads' = [heads EXCEPT !.outputs =
                    [task \in HeadTasks |-> softmax(heads.logits[task])]]
    /\ stage' = "scores"
    /\ UNCHANGED <<qc, dataset, taxVars, pipeVars, topkVars, clfVars, srvVars>>

NetNext == Forward

NetSpec == NetInit /\ [][NetNext]_vars

-----------------------------------------------------------------------------
(* quality_control.py: validate_training_data sorts the JSON files of the  *)
(* training directory into the validated and the rejected directory.       *)
(* Quality scores are kept in 300ths: 0.4 is 120, 0.3 is 90, a third of    *)
(* 0.1 is 10, 0.2 is 60 and the threshold 0.7 is 210.  (The sums the       *)
(* script forms in floating point compare with 0.7 as these do.)           *)

IMAGE_SCORE == 120
ANNOTATION_SCORE == 90
FIELD_SCORE == 10
METADATA_SCORE == 60
QUALITY_THRESHOLD == 210
MIN_IMAGE_BYTES == 10240
MAX_IMAGE_BYTES == 5120000

\* check_image_quality.  An image is given by what the function looks at:
\* is it a string, is it a data URL, does the string contain one of the
\* format names, does its base64 part decode, and to how many bytes.
check_image_quality(image_data) ==
    IF ~image_data.is_string THEN FALSE
    ELSE IF image_data.data_url /\ ~image_data.names_format THEN FALSE
    ELSE IF ~image_data.decodes THEN FALSE
    ELSE IF image_data.bytes < MIN_IMAGE_BYTES THEN FALSE
    ELSE IF image_data.bytes > MAX_IMAGE_BYTES THEN FALSE
    ELSE IF image_data.bytes < 100 THEN FALSE
    ELSE TRUE

\* The annotation fields age, gender and health hold a string, spelt out,
\* or a value that is no string (on which .lower() raises); a missing
\* field reads as the empty string.  A field counts as completed unless
\* its lower-cased value is 'unknown'.
Text(chars) == [is_string |-> TRUE, text |-> chars]

NotAString == [is_string |-> FALSE, text |-> << >>]

Completed(value) == lower(value.text) # Spell(<<"u", "n", "k", "n", "o", "w", "n">>)

\* check_data_quality: the score, or the exception of a record that is no
\* dictionary ('in' raises on null; on a list that holds the string
\* 'imageData' the subscript record['imageData'] raises, on another list
\* .get), of an annotation or a
\* metadata entry that is no dictionary (.get raises) or of a field that is
\* no string (.lower raises).  A missing entry reads as the empty
\* dictionary.
check_data_quality(record) ==
    LET a == record.annotation
        image_ok == record.has_image /\ check_image_quality(record.imageData)
        annotated == a.is_dict /\ a.breed /\ a.animalType
        fields == << a.age, a.gender, a.health >>
        completed_fields == Cardinality({ n \in 1..3 : Completed(fields[n]) })
        complete_meta == record.metadata.captureDate /\ record.metadata.deviceInfo
    IN  IF record.value = "null"
        THEN [raised |-> "TypeError", score |-> 0]
        ELSE IF record.value = "list" /\ record.has_image
        THEN [raised |-> "TypeError", score |-> 0]
        ELSE IF \/ record.value = "list"
                \/ ~a.is_dict
                \/ annotated /\ \E n \in 1..3 : ~fields[n].is_string
                \/ ~record.metadata.is_dict
        THEN [raised |-> "AttributeError", score |-> 0]
        ELSE [raised |-> "none",
              score  |-> (IF image_ok THEN IMAGE_SCORE ELSE 0)
                         + (IF annotated
                            THEN ANNOTATION_SCORE + completed_fields * FIELD_SCORE
                            ELSE 0)
                         + (IF complete_meta THEN METADATA_SCORE ELSE 0)]

GoodImage ==
    [is_string |-> TRUE, data_url |-> TRUE, names_format |-> TRUE,
     decodes |-> TRUE, bytes |-> 51200]

FullAnnotation ==
    [is_dict |-> TRUE, breed |-> TRUE, animalType |-> TRUE,
     age    |-> Text(Spell(<<"A", "d", "u", "l", "t">>)),
     gender |-> Text(Spell(<<"f", "e", "m", "a", "l", "e">>)),
     health |-> Text(Spell(<<"h", "e", "a", "l", "t", "h", "y">>))]

FullMetadata == [is_dict |-> TRUE, captureDate |-> TRUE, deviceInfo |-> TRUE]

GoodRecord ==
    [filename |-> "good.json", printable |-> TRUE, json_ok |-> TRUE, value |-> "dict",
     has_image |-> TRUE, imageData |-> GoodImage, annotation |-> FullAnnotation,
     metadata |-> FullMetadata, validation |-> "dict", encodable |-> TRUE]

\* The JSON files the training directory may hold.  printable: the file
\* name is valid UTF-8 (os.listdir gives the name b'caf\xe9.json' as
\* 'caf\udce9.json', which a strict stdout cannot encode); json_ok: the
\* file parses; value: the parsed value is a dictionary, a list (has_image:
\* the list holds the string 'imageData') or null;
\* validation: the 'validation' entry is a dictionary, is absent, or is
\* another value; encodable: every string of the record can be written as
\* UTF-8 (none holds a lone surrogate such as "Gir\ud800").
TrainingCatalogue ==
    << GoodRecord,
       [GoodRecord EXCEPT !.filename = "tiny.json", !.imageData.bytes = 5120],
       [GoodRecord EXCEPT !.filename = "bare.json",
                          !.annotation.age = Text(Spell(<<"U", "n", "k", "n", "o", "w", "n">>)),
                          !.annotation.gender = Text(Spell(<<"U", "N", "K", "N", "O", "W", "N">>)),
                          !.annotation.health = Text(Spell(<<"u", "n", "k", "n", "o", "w", "n">>)),
                          !.metadata.deviceInfo = FALSE],
       [GoodRecord EXCEPT !.filename = "nobreed.json", !.annotation.breed = FALSE],
       [GoodRecord EXCEPT !.filename = "corrupt.json", !.json_ok = FALSE],
       [GoodRecord EXCEPT !.filename = "novalidation.json", !.validation = "absent"],
       [GoodRecord EXCEPT !.filename = "poor_novalidation.json",
                          !.has_image = FALSE, !.validation = "absent"],
       [GoodRecord EXCEPT !.filename = "numeric_age.json", !.annotation.age = NotAString],
       [GoodRecord EXCEPT !.filename = "gif.json", !.imageData.names_format = FALSE],
       [GoodRecord EXCEPT !.filename = "raw_base64.json",
                          !.imageData.data_url = FALSE,
                          !.imageData.names_format = FALSE,
                          !.annotation.health = Text(Spell(<<"U", "n", "K", "n", "o", "w", "n">>)),
                          !.metadata.captureDate = FALSE],
       [GoodRecord EXCEPT !.filename = "huge.json", !.imageData.bytes = 5120001],
       [GoodRecord EXCEPT !.filename = "null_image.json",
                          !.imageData.is_string = FALSE],
       [GoodRecord EXCEPT !.filename = "null_annotation.json",
                          !.annotation.is_dict = FALSE],
       [GoodRecord EXCEPT !.filename = "list_metadata.json",
                          !.has_image = FALSE,
                          !.metadata.is_dict = FALSE],
       [GoodRecord EXCEPT !.filename = "surrogate.json", !.encodable = FALSE],
       [GoodRecord EXCEPT !.filename = "poor_surrogate.json",
                          !.has_image = FALSE, !.encodable = FALSE],
       [GoodRecord EXCEPT !.filename = "null_validation.json",
                          !.validation = "no_dict"],
       [GoodRecord EXCEPT !.filename = "poor_list_validation.json",
                          !.has_image = FALSE, !.validation = "no_dict"],
       [GoodRecord EXCEPT !.filename = "list.json", !.value = "list"],
       [GoodRecord EXCEPT !.filename = "null.json", !.value = "null"],
       [GoodRecord EXCEPT !.filename = "caf_e9.json", !.printable = FALSE],
       [GoodRecord EXCEPT !.filename = "poor_caf_e9.json",
                          !.printable = FALSE, !.has_image = FALSE],
       [GoodRecord EXCEPT !.filename = "corrupt_caf_e9.json",
                          !.printable = FALSE, !.json_ok = FALSE],
       [GoodRecord EXCEPT !.filename = "novalidation_caf_e9.json",
                          !.printable = FALSE, !.validation = "absent"],
       [GoodRecord EXCEPT !.filename = "empty_list.json",
                          !.value = "list", !.has_image = FALSE] >>

TrainingRecords ==
    { TrainingCatalogue[n] : n \in 1..Min(NumRecordKinds, Len(TrainingCatalogue)) }

\* the listings of the training directory: file names are unique
TrainingDirs ==
    UNION { { fs \in [1..n -> TrainingRecords] :
                \A a, b \in 1..n : a # b => fs[a].filename # fs[b].filename }
            : n \in 0..MaxTrainFiles }

\* what sys.stdout does with the messages: the encoding and its error
\* handler.  The messages hold emoji, which ascii cannot encode; a file
\* name that is not UTF-8 is encoded under surrogateescape only.
STDOUTS == {"utf-8:strict", "utf-8:surrogateescape", "ascii:strict"}

\* print of a message of the script
PrintsMessages(stdout) == stdout # "ascii:strict"

\* print of a message with the file name in it
PrintsName(stdout, record) ==
    PrintsMessages(stdout) /\ (record.printable \/ stdout = "utf-8:surrogateescape")

\* Before validate_training_data: the training directory exists with a
\* listing of JSON files, or does not exist.
QcInit ==
    /\ \E out \in STDOUTS :
          \/ \E fs \in TrainingDirs :
                qc = [NoRun EXCEPT !.stdout = out, !.training_dir = TRUE, !.files = fs]
          \/ qc = [NoRun EXCEPT !.stdout = out]
    /\ heads = NoHeads /\ dataset = NoDataset
    /\ stage = "qc"
    /\ TaxIdle /\ PipeIdle /\ TopKIdle /\ ClfIdle /\ SrvIdle

\* validate_training_data up to the loop: the first print raises on a
\* stdout that cannot encode it; the output directories are made; without
\* a training directory the function returns.
StartValidation ==
    /\ stage = "qc"
    /\ qc.status = "start"
    /\ qc' = [qc EXCEPT !.status =
                 IF ~PrintsMessages(qc.stdout) THEN "raised"
                 ELSE IF ~qc.training_dir THEN "returned"
                 ELSE "loop"]
    /\ UNCHANGED <<heads, dataset, stage, taxVars, pipeVars, topkVars, clfVars, srvVars>>

\* json.dump(record, f, indent=2, ensure_ascii=False) into a file opened
\* with encoding utf-8: a string that cannot be encoded raises
\* UnicodeEncodeError when it is written, and what was written before it
\* stays in the file.
dump_record(record) ==
    IF record.encodable
    THEN [raised |-> "none", file |-> "complete"]
    ELSE [raised |-> "UnicodeEncodeError", file |-> "incomplete"]

\* record['validation']['status'] = ...: KeyError without the entry,
\* TypeError on an entry that is no dictionary
set_validation(record) ==
    IF record.validation = "absent" THEN "KeyError"
    ELSE IF record.validation = "no_dict" THEN "TypeError"
    ELSE "none"

\* move_to_validated: the validation entries are set, then the output file
\* is opened and the record dumped into it.  file is "none" when the
\* function raised before it opened the file.
move_to_validated(record) ==
    IF set_validation(record) # "none"
    THEN [raised |-> set_validation(record), file |-> "none"]
    ELSE dump_record(record)

\* move_to_rejected: as move_to_validated, into the rejected directory
move_to_rejected(record) ==
    IF set_validation(record) # "none"
    THEN [raised |-> set_validation(record), file |-> "none"]
    ELSE dump_record(record)

\* One pass of the loop of validate_training_data.  json.load raises on a
\* file that is not JSON and check_data_quality may raise, before any file
\* is written.  move_to_validated and move_to_rejected may raise before
\* they open the output file or while they write it.  After the move the
\* branch prints the file name and then increments its counter; the except
\* clause prints the file name and counts a file on which anything raised
\* as rejected.  When the file name cannot be printed, the print of the
\* branch raises, then the print of the except clause raises, and the
\* exception leaves validate_training_data with no counter incremented.
ValidateFile ==
    /\ stage = "qc"
    /\ qc.status = "loop"
    /\ qc.i < Len(qc.files)
    /\ LET record == qc.files[qc.i + 1]
           quality == check_data_quality(record)
           next == [qc EXCEPT !.i = qc.i + 1]
           good == quality.score >= QUALITY_THRESHOLD
           moved == IF good THEN move_to_validated(record)
                    ELSE move_to_rejected(record)
           written == IF moved.file = "none" THEN {} ELSE {record.filename}
           broken == IF moved.file = "incomplete" THEN {record.filename} ELSE {}
           saved == [next EXCEPT
                       !.validated_dir = IF good THEN @ \cup written ELSE @,
                       !.rejected_dir = IF good THEN @ ELSE @ \cup written,
                       !.incomplete = @ \cup broken]
           handled == IF ~record.json_ok \/ quality.raised # "none"
                      THEN next ELSE saved
       IN  qc' = IF ~PrintsName(qc.stdout, record)
                 THEN [handled EXCEPT !.status = "raised"]
                 ELSE IF ~record.json_ok \/ quality.raised # "none"
                         \/ moved.raised # "none"
                 THEN [handled EXCEPT !.rejected_count = @ + 1]
                 ELSE IF good
                 THEN [handled EXCEPT !.validated_count = @ + 1]
                 ELSE [handled EXCEPT !.rejected_count = @ + 1]
    /\ UNCHANGED <<heads, dataset, stage, taxVars, pipeVars, topkVars, clfVars, srvVars>>

\* the end of validate_training_data: the loop is through and the summary
\* is printed
PrintSummary ==
    /\ stage = "qc"
    /\ qc.status = "loop"
    /\ qc.i = Len(qc.files)
    /\ qc' = [qc EXCEPT !.status = "done"]
    /\ UNCHANGED <<heads, dataset, stage, taxVars, pipeVars, topkVars, clfVars, srvVars>>

QcNext == StartValidation \/ ValidateFile \/ PrintSummary

QcSpec == QcInit /\ [][QcNext]_vars

\* the files the loop has gone through
Processed == { qc.files[n] : n \in 1..qc.i }

QcFinished == stage = "qc" /\ qc.status = "done" /\ qc.i = Len(qc.files)

\* the file has a quality score and it reaches the threshold
GoodQuality(record) ==
    /\ record.json_ok
    /\ check_data_quality(record).raised = "none"
    /\ check_data_quality(record).score >= QUALITY_THRESHOLD

\* C29: when validate_training_data has gone through the training
\* directory, validated_count + rejected_count is the number of files, and
\* every file lies in exactly one output directory, the one it was counted
\* for: in the validated directory if and only if its quality score is at
\* least 0.7, otherwise in the rejected directory.
C29_EveryFileSortedOnce ==
    QcFinished =>
        /\ qc.validated_count + qc.rejected_count = Len(qc.files)
        /\ qc.validated_count = Cardinality(qc.validated_dir)
        /\ qc.rejected_count = Cardinality(qc.rejected_dir)
        /\ \A record \in Processed :
              /\ (record.filename \in qc.validated_dir) # (record.filename \in qc.rejected_dir)
              /\ (record.filename \in qc.validated_dir) = GoodQuality(record)

-----------------------------------------------------------------------------
(* dataset_manager.py: process_all_datasets walks the breed folders of the *)
(* raw data directory, labels every image from the name of its folder and  *)
(* adds the breed index.  Folder names are sequences of characters, so     *)
(* that _clean_breed_name is computed as str.strip, str.replace and        *)
(* str.title compute it.                                                   *)

\* the names of all_breeds, character by character, in the order of
\* all_breeds
all_breeds_written ==
    << << "A", "m", "r", "i", "t", "m", "a", "h", "a", "l" >>,
       << "B", "a", "c", "h", "a", "u", "r" >>,
       << "B", "a", "r", "g", "u", "r" >>,
       << "D", "a", "n", "g", "i" >>,
       << "D", "e", "o", "n", "i" >>,
       << "G", "a", "o", "l", "a", "o" >>,
       << "G", "i", "r" >>,
       << "H", "a", "l", "l", "i", "k", "a", "r" >>,
       << "H", "a", "r", "i", "a", "n", "a" >>,
       << "K", "a", "n", "g", "a", "y", "a", "m" >>,
       << "K", "a", "n", "k", "r", "e", "j" >>,
       << "K", "h", "e", "r", "i", "g", "a", "r", "h" >>,
       << "K", "h", "i", "l", "l", "a", "r", "i" >>,
       << "K", "r", "i", "s", "h", "n", "a", " ", "V", "a", "l", "l", "e", "y" >>,
       << "M", "a", "l", "n", "a", "d", " ", "G", "i", "d", "d", "a" >>,
       << "M", "a", "l", "v", "i" >>,
       << "M", "e", "w", "a", "t", "i" >>,
       << "N", "a", "g", "o", "r", "i" >>,
       << "N", "e", "l", "l", "o", "r", "e" >>,
       << "N", "i", "m", "a", "r", "i" >>,
       << "O", "n", "g", "o", "l", "e" >>,
       << "P", "o", "n", "w", "a", "r" >>,
       << "P", "u", "l", "i", "k", "u", "l", "a", "m" >>,
       << "R", "a", "t", "h", "i" >>,
       << "R", "e", "d", " ", "K", "a", "n", "d", "h", "a", "r", "i" >>,
       << "R", "e", "d", " ", "S", "i", "n", "d", "h", "i" >>,
       << "S", "a", "h", "i", "w", "a", "l" >>,
       << "S", "i", "r", "i" >>,
       << "T", "h", "a", "r", "p", "a", "r", "k", "a", "r" >>,
       << "U", "m", "b", "l", "a", "c", "h", "e", "r", "y" >>,
       << "V", "e", "c", "h", "u", "r" >>,
       << "A", "l", "a", "m", "b", "a", "d", "i" >>,
       << "B", "a", "r", "g", "u", "r" >>,
       << "B", "e", "l", "a", "h", "i" >>,
       << "B", "i", "n", "j", "h", "a", "r", "p", "u", "r", "i" >>,
       << "G", "a", "n", "g", "a", "t", "i", "r", "i" >>,
       << "G", "o", "b", "r", "a" >>,
       << "K", "a", "c", "h", "c", "h", "a" >>,
       << "K", "e", "n", "w", "a", "r", "i", "y", "a" >>,
       << "K", "o", "s", "a", "l", "i" >>,
       << "L", "o", "h", "a", "n", "i" >>,
       << "M", "a", "l", "n", "a", "d", " ", "G", "i", "d", "d", "a" >>,
       << "M", "a", "n", "d", "v", "i" >>,
       << "N", "a", "g", "a", "u", "r", "i" >>,
       << "P", "a", "l", "a", "m", "e", "d", "u" >>,
       << "P", "u", "n", "g", "a", "n", "u", "r" >>,
       << "V", "a", "d", "i", "y", "a" >>,
       << "B", "h", "a", "d", "a", "w", "a", "r", "i" >>,
       << "J", "a", "f", "f", "a", "r", "a", "b", "a", "d", "i" >>,
       << "M", "e", "h", "s", "a", "n", "a" >>,
       << "M", "u", "r", "r", "a", "h" >>,
       << "N", "i", "l", "i", "-", "R", "a", "v", "i" >>,
       << "P", "a", "n", "d", "h", "a", "r", "p", "u", "r", "i" >>,
       << "S", "u", "r", "t", "i" >>,
       << "T", "o", "d", "a" >>,
       << "B", "a", "r", "g", "u", "r" >>,
       << "K", "a", "l", "a", "h", "a", "n", "d", "i" >>,
       << "M", "a", "r", "a", "t", "h", "w", "a", "d", "a" >>,
       << "N", "a", "g", "p", "u", "r", "i" >>,
       << "G", "o", "d", "a", "v", "a", "r", "i" >>,
       << "C", "h", "i", "l", "i", "k", "a" >>,
       << "D", "i", "b", "r", "u", "g", "a", "r", "h" >>,
       << "J", "e", "r", "a", "n", "g", "i" >>,
       << "L", "a", "k", "h", "i", "m", "i" >>,
       << "S", "w", "a", "m", "p", " ", "B", "u", "f", "f", "a", "l", "o" >>,
       << "T", "a", "r", "a", "i" >>,
       << "B", "a", "n", "n", "i" >>,
       << "G", "o", "j", "r", "i" >>,
       << "K", "u", "n", "d", "i" >>,
       << "L", "i", "m", "e" >>,
       << "M", "a", "n", "d", "a" >>,
       << "M", "a", "n", "i", "p", "u", "r", "i" >>,
       << "N", "a", "g", "p", "u", "r", "i" >>,
       << "S", "a", "m", "b", "a", "l", "p", "u", "r", "i" >>,
       << "C", "h", "h", "a", "t", "t", "i", "s", "g", "a", "r", "h", "i" >>,
       << "D", "h", "a", "r", "w", "a", "d", "i" >>,
       << "E", "l", "l", "i", "c", "h", "p", "u", "r" >>,
       << "P", "a", "n", "d", "h", "a", "r", "p", "u", "r", "i" >> >>

\* the names of all_breeds as strings of code points
all_breeds_spelt ==
    [n \in 1..Len(all_breeds_written) |-> Spell(all_breeds_written[n])]

\* str.replace("_", " ")
replace_underscores(name) ==
    [n \in 1..Len(name) |-> IF name[n] = 95 THEN 32 ELSE name[n]]

\* the one entry of breed_mappings that changes a name
NILI_RAVI_SPACED == Spell(<< "N", "i", "l", "i", " ", "R", "a", "v", "i" >>)
NILI_RAVI_HYPHENATED == Spell(<< "N", "i", "l", "i", "-", "R", "a", "v", "i" >>)

_clean_breed_name(raw_name) ==
    LET cleaned == title(replace_underscores(strip(raw_name)))
    IN  IF cleaned = NILI_RAVI_SPACED THEN NILI_RAVI_HYPHENATED ELSE cleaned

\* `breed_name in self.all_breeds`, and the string a spelling stands for
InAllBreeds(spelt) == \E n \in 1..Len(all_breeds) : all_breeds_spelt[n] = spelt

AsString(spelt) ==
    all_breeds[CHOOSE n \in 1..Len(all_breeds) : all_breeds_spelt[n] = spelt]

InCattleBreeds(breed) == \E n \in 1..Len(CATTLE_BREEDS) : CATTLE_BREEDS[n] = breed

\* the dataset names preprocess_single_dataset knows the layout of
KNOWN_DATASETS == {"indian_bovine_breeds", "cows_buffalo_cv", "cattle_breeds"}

\* The folders the raw data directory may hold: the dataset, the name of
\* the folder and the number of *.jpg files in it.
FolderCatalogue ==
    << [dataset_name |-> "indian_bovine_breeds", name |-> Spell(<< "G", "i", "r" >>), images |-> 2],
       [dataset_name |-> "indian_bovine_breeds",
        name |-> Spell(<< "r", "e", "d", "_", "s", "i", "n", "d", "h", "i" >>), images |-> 1],
       [dataset_name |-> "indian_bovine_breeds",
        name |-> Spell(<< "B", "a", "r", "g", "u", "r" >>), images |-> 1],
       [dataset_name |-> "cows_buffalo_cv",
        name |-> Spell(<< "m", "u", "r", "r", "a", "h" >>), images |-> 1],
       [dataset_name |-> "cows_buffalo_cv",
        name |-> Spell(<< "n", "i", "l", "i", "_", "r", "a", "v", "i" >>), images |-> 1],
       [dataset_name |-> "cattle_breeds",
        name |-> Spell(<< "S", "A", "H", "I", "W", "A", "L" >>), images |-> 1],
       [dataset_name |-> "cows_buffalo_cv",
        name |-> Spell(<< "t", "r", "a", "i", "n" >>), images |-> 1],
       [dataset_name |-> "open_images", name |-> Spell(<< "G", "i", "r" >>), images |-> 1],
       [dataset_name |-> "cattle_breeds",
        name |-> Spell(<< "\t", "t", "o", "d", "a", " " >>), images |-> 1],
       [dataset_name |-> "cattle_breeds",
        name |-> Spell(<< "_", "g", "i", "r" >>), images |-> 1],
       [dataset_name |-> "cows_buffalo_cv",
        name |-> Spell(<< "b", "a", "r", "g", "u", "r" >>), images |-> 2] >>

BreedFolders ==
    { FolderCatalogue[n] : n \in 1..Min(NumFolderKinds, Len(FolderCatalogue)) }

\* the listings of the raw data directory: no folder twice
RawDataDirs ==
    UNION { { fs \in [1..n -> BreedFolders] : \A a, b \in 1..n : a # b => fs[a] # fs[b] }
            : n \in 0..MaxFolders }

DsInit ==
    /\ \E fs \in RawDataDirs : dataset = [NoDataset EXCEPT !.folders = fs]
    /\ heads = NoHeads /\ qc = NoRun
    /\ stage = "raw"
    /\ TaxIdle /\ PipeIdle /\ TopKIdle /\ ClfIdle /\ SrvIdle

\* the records preprocess_single_dataset makes of one folder
FolderRecords(folder) ==
    LET cleaned_name == _clean_breed_name(folder.name)
    IN  IF folder.dataset_name \in KNOWN_DATASETS /\ InAllBreeds(cleaned_name)
        THEN [n \in 1..folder.images |->
                [image_path     |-> << folder.dataset_name, folder.name, n >>,
                 breed          |-> AsString(cleaned_name),
                 animal_type    |-> IF InCattleBreeds(AsString(cleaned_name))
                                    THEN "cattle" ELSE "buffalo",
                 dataset_source |-> folder.dataset_name]]
        ELSE << >>

\* one folder of the walk of preprocess_single_dataset
PreprocessFolder ==
    /\ stage = "raw"
    /\ dataset.i < Len(dataset.folders)
    /\ dataset' = [dataset EXCEPT
                     !.i = @ + 1,
                     !.data_records = @ \o FolderRecords(dataset.folders[dataset.i + 1])]
    /\ UNCHANGED <<heads, qc, stage, taxVars, pipeVars, topkVars, clfVars, srvVars>>

\* DataFrame.drop_duplicates(subset=['image_path']): the first row of every
\* image path is kept
drop_duplicates(rows) ==
    SelectSeq([n \in 1..Len(rows) |-> [row |-> rows[n], first |->
                   \A m \in 1..(n - 1) : rows[m].image_path # rows[n].image_path]],
              LAMBDA e : e.first)

\* the rows of a frame whose column has the value
RowsWith(rows, column, value) ==
    Cardinality({ n \in 1..Len(rows) : rows[n][column] = value })

\* Series.value_counts().to_dict(): how often each value of the column occurs
value_counts(rows, column) ==
    [value \in { rows[n][column] : n \in 1..Len(rows) } |->
        RowsWith(rows, column, value)]

\* the j-th smallest of the counts
CountAt(counts, j) ==
    CHOOSE c \in { counts[v] : v \in DOMAIN counts } :
        /\ Cardinality({ v \in DOMAIN counts : counts[v] < c }) < j
        /\ j <= Cardinality({ v \in DOMAIN counts : counts[v] <= c })

\* A number of the statistics with its Python type; a float is the
\* fraction <<numerator, denominator>>.
Number(type, value) == [type |-> type, value |-> value]

\* _generate_dataset_stats, the dictionary: min() and max() of a pandas
\* Series of counts are numpy.int64, mean() and median() are numpy.float64
dataset_stats_of(rows) ==
    LET counts == value_counts(rows, "breed")
        k == Cardinality(DOMAIN counts)
    IN  [total_images       |-> Len(rows),
         total_breeds       |-> k,
         cattle_images      |-> RowsWith(rows, "animal_type", "cattle"),
         buffalo_images     |-> RowsWith(rows, "animal_type", "buffalo"),
         breed_distribution |-> counts,
         dataset_sources    |-> value_counts(rows, "dataset_source"),
         images_per_breed   |->
            [min    |-> Number("numpy.int64", CountAt(counts, 1)),
             max    |-> Number("numpy.int64", CountAt(counts, k)),
             mean   |-> Number("numpy.float64", << Len(rows), k >>),
             median |-> Number("numpy.float64",
                               << CountAt(counts, (k + 1) \div 2)
                                    + CountAt(counts, k \div 2 + 1), 2 >>)]]

\* json.dump has no encoding for numpy.int64 (numpy.float64 is a float)
JsonSerialisable(number) == number.type # "numpy.int64"

\* json.dump(stats, f): raises TypeError at the first number it cannot
\* encode, the file begun
json_dump(stats) ==
    IF \A key \in DOMAIN stats.images_per_breed :
          JsonSerialisable(stats.images_per_breed[key])
    THEN [raised |-> "none", file |-> "written"]
    ELSE [raised |-> "TypeError", file |-> "incomplete"]

\* The end of process_all_datasets.  Without a record it returns an empty
\* frame.  Else the frames are concatenated, duplicate paths dropped,
\* breed_idx is looked up in breed_to_idx (the filter on all_breeds drops
\* nothing: preprocess_single_dataset made records of supported breeds
\* only), the frame is written to combined_dataset.csv and
\* _generate_dataset_stats sets dataset_stats and dumps it; an exception of
\* the dump leaves process_all_datasets, which then returns nothing.
CombineDatasets ==
    /\ stage = "raw"
    /\ dataset.i = Len(dataset.folders)
    /\ LET kept == drop_duplicates(dataset.data_records)
           combined_df ==
               [n \in 1..Len(kept) |->
                  [image_path     |-> kept[n].row.image_path,
                   breed          |-> kept[n].row.breed,
                   animal_type    |-> kept[n].row.animal_type,
                   dataset_source |-> kept[n].row.dataset_source,
                   breed_idx      |-> breed_to_idx[kept[n].row.breed]]]
           stats == dataset_stats_of(combined_df)
           dumped == json_dump(stats)
       IN  dataset' =
              IF dataset.data_records = << >>
              THEN [dataset EXCEPT !.outcome = "returned"]
              ELSE [dataset EXCEPT !.combined = combined_df,
                                   !.csv = combined_df,
                                   !.dataset_stats = stats,
                                   !.stats_file = dumped.file,
                                   !.outcome = IF dumped.raised = "none"
                                               THEN "returned" ELSE dumped.raised]
    /\ stage' = "combined"
    /\ UNCHANGED <<heads, qc, taxVars, pipeVars, topkVars, clfVars, srvVars>>

DsNext == PreprocessFolder \/ CombineDatasets

DsSpec == DsInit /\ [][DsNext]_vars

\* C30: in every record of process_all_datasets (the rows of its combined
\* frame, which it writes to combined_dataset.csv), animal_type is 'cattle'
\* if and only if breed_idx is below the number of cattle breeds (47), and
\* 'buffalo' if and only if breed_idx is 47 or more.
C30_AnimalTypeMatchesIndexRange ==
    stage = "combined" =>
        \A n \in 1..Len(dataset.csv) :
            LET rec == dataset.csv[n]
            IN  /\ (rec.animal_type = "cattle") = (rec.breed_idx < Len(CATTLE_BREEDS))
                /\ (rec.animal_type = "buffalo") = (rec.breed_idx >= Len(CATTLE_BREEDS))

-----------------------------------------------------------------------------
(* The life of one MultiTaskBovineClassifier: after its construction       *)
(* build_model, compile_model and predict_single are called in any order,  *)
(* predict_single on the caller's array of one image or of up to MaxImages *)
(* images.                                                                 *)

\* the breed scores of the images of an input array
ArrayBreedProfiles == { << 910, 40, 30, 20 >>, << 450, 450, 50, 50 >> }

ArrayPlacement == [s \in 1..4 |-> BreedCandidates[s]]

\* what the network returns for one image
ImageOutputs ==
    { [animal_type |-> Vec(tp.animal_type),
       breed       |-> BreedVector(profile, ArrayPlacement),
       age         |-> Vec(tp.age),
       gender      |-> Vec(tp.gender),
       health      |-> Vec(tp.health)] :
         tp \in { TaskProfiles[n] : n \in 1..Min(NumTaskProfiles, Len(TaskProfiles)) },
         profile \in ArrayBreedProfiles }

\* The inputs of predict_single: an image of shape (H, W, 3), ndim 3, or an
\* array of N images of shape (N, H, W, 3), ndim 4; each image is given by
\* what the network returns for it.
PredictInputs ==
    { [ndim |-> 3, images |-> <<o>>] : o \in ImageOutputs }
    \cup { [ndim |-> 4, images |-> imgs] :
              imgs \in UNION { [1..n -> ImageOutputs] : n \in 1..MaxImages } }

\* self.model.predict(image): per task the array of shape (N, n) whose rows
\* are the images' score vectors.  An input of ndim 3 has been given its
\* batch dimension by np.expand_dims before, so N = 1.
model_predict(x) ==
    LET N == IF x.ndim = 3 THEN 1 ELSE Len(x.images)
    IN  [animal_type |-> [n \in 1..N |-> x.images[n].animal_type],
         breed       |-> [n \in 1..N |-> x.images[n].breed],
         age         |-> [n \in 1..N |-> x.images[n].age],
         gender      |-> [n \in 1..N |-> x.images[n].gender],
         health      |-> [n \in 1..N |-> x.images[n].health]]

CallRecord(op, outcome) ==
    [op |-> op, raised |-> outcome.raised, returned |-> outcome.returned,
     value |-> outcome.value]

ClfInit ==
    /\ classifier = Constructed
    /\ call = NoCall
    /\ image \in PredictInputs
    /\ stage = "lifecycle"
    /\ TaxIdle /\ PipeIdle /\ TopKIdle /\ ToolIdle /\ SrvIdle

\* build_model: self.model is assigned by its last statement but one, so a
\* call that raises (the backbone's weights cannot be loaded) leaves
\* self.model as it was; the network it assigns is not compiled
BuildModel ==
    /\ stage = "lifecycle"
    /\ \E outcome \in {"ok", "raises"} :
          /\ classifier' = IF outcome = "ok"
                           THEN [net |-> TRUE, compiled |-> FALSE]
                           ELSE classifier
          /\ call' = CallRecord("build_model",
                          IF outcome = "ok" THEN Returned(<< >>)
                          ELSE Raised("Exception"))
    /\ UNCHANGED <<image, stage, taxVars, pipeVars, topkVars, toolVars, srvVars>>

\* compile_model without its check of self.model
CompileModel_unguarded ==
    /\ stage = "lifecycle"
    /\ classifier' = [classifier EXCEPT !.compiled = TRUE]
    /\ call' = CallRecord("compile_model", Returned(<< >>))
    /\ UNCHANGED <<image, stage, taxVars, pipeVars, topkVars, toolVars, srvVars>>

\* compile_model: ValueError when self.model is None, else
\* self.model.compile(...)
CompileModel ==
    /\ stage = "lifecycle"
    /\ IF classifier.net
       THEN /\ classifier' = [classifier EXCEPT !.compiled = TRUE]
            /\ call' = CallRecord("compile_model", Returned(<< >>))
       ELSE /\ classifier' = classifier
            /\ call' = CallRecord("compile_model", Raised("ValueError"))
    /\ UNCHANGED <<image, stage, taxVars, pipeVars, topkVars, toolVars, srvVars>>

\* predict_single(image): ValueError when self.model is None, else the
\* outcome of post-processing what self.model.predict returns
PredictSingleCall ==
    /\ stage = "lifecycle"
    /\ IF classifier.net
       THEN \E outcome \in predict_single_arrays(model_predict(image)) :
               call' = CallRecord("predict_single", outcome)
       ELSE call' = CallRecord("predict_single", Raised("ValueError"))
    /\ UNCHANGED <<classifier, image, stage, taxVars, pipeVars, topkVars, toolVars, srvVars>>

ClfNext == BuildModel \/ CompileModel \/ PredictSingleCall

ClfSpec == ClfInit /\ [][ClfNext]_vars

-----------------------------------------------------------------------------
(* main.py: the serving process.  Handlers are coroutines on one event     *)
(* loop: a handler runs alone from one await to the next, and the only     *)
(* await in a handler is `await file.read()`.  `running` is the slot whose *)
(* handler holds the loop; 0 when every handler is parked or finished.     *)

\* API_CONFIG["max_file_size"]
MAX_FILE_SIZE == 10485760

\* the batch limit of classify_batch_images
MAX_BATCH == 10

\* API_CONFIG["allowed_extensions"]
ALLOWED_EXTENSIONS ==
    { Spell(<<".", "j", "p", "g">>), Spell(<<".", "j", "p", "e", "g">>),
      Spell(<<".", "p", "n", "g">>), Spell(<<".", "b", "m", "p">>) }

\* how many entries of FileCatalogue clients upload
NumFileKinds == 9
\* longest batch with files drawn freely from the catalogue
MaxFiles == 2
\* how many entries of UrlCatalogue clients ask for
NumUrlKinds == 5
\* requests in flight at once in ConcSpec
MaxReq == 2

\* file_ext.lower()
Lower(ext) == lower(ext)

\* Uploads.  filename is <<stem, extension>> as os.path.splitext splits it,
\* the extension spelt out, and <<"", << >>>> when the part has an empty
\* filename; size is the number of
\* bytes uploaded and has_size is FALSE when UploadFile.size is None.  content says what the bytes are: an image of a
\* cow or of a buffalo, bytes PIL cannot identify ("garbage"), an image cut
\* short so that decoding its pixels fails ("truncated"), an image on which
\* the network raises ("poison"), or an upload whose read() raises
\* ("unreadable").
FileCatalogue ==
    << [filename |-> <<"gaolao", Spell(<<".", "j", "p", "g">>)>>,
        has_size |-> TRUE,  size |-> 2048,
        content |-> "cow"],
       [filename |-> <<"noise", Spell(<<".", "j", "p", "g">>)>>,
        has_size |-> TRUE,  size |-> 2048,
        content |-> "garbage"],
       [filename |-> <<"huge", Spell(<<".", "j", "p", "g">>)>>,
        has_size |-> TRUE,  size |-> MAX_FILE_SIZE + 1,
        content |-> "cow"],
       [filename |-> <<"anim", Spell(<<".", "g", "i", "f">>)>>,
        has_size |-> TRUE,  size |-> 2048,
        content |-> "cow"],
       [filename |-> <<"murrah", Spell(<<".", "P", "N", "G">>)>>,
        has_size |-> TRUE,  size |-> MAX_FILE_SIZE,
        content |-> "buffalo"],
       [filename |-> <<"cut", Spell(<<".", "b", "m", "p">>)>>,
        has_size |-> TRUE,  size |-> 2048,
        content |-> "truncated"],
       [filename |-> <<"odd", Spell(<<".", "J", "p", "e", "g">>)>>,
        has_size |-> TRUE,  size |-> 2048,
        content |-> "poison"],
       [filename |-> <<"", << >>>>,
        has_size |-> TRUE,  size |-> 2048,
        content |-> "cow"],
       [filename |-> <<"lost", Spell(<<".", "j", "p", "g">>)>>,
        has_size |-> TRUE,  size |-> 2048,
        content |-> "unreadable"],
       [filename |-> <<"README", << >>>>,
        has_size |-> TRUE,  size |-> 0,
        content |-> "garbage"],
       [filename |-> <<"", << >>>>,
        has_size |-> FALSE, size |-> MAX_FILE_SIZE + 1,
        content |-> "cow"] >>

Files == { FileCatalogue[n] : n \in 1..Min(NumFileKinds, Len(FileCatalogue)) }

GoodFile == FileCatalogue[1]

\* What a URL leads to: how requests.get and raise_for_status end, and what
\* the body is.
UrlCatalogue ==
    << [download |-> "ok",         content |-> "cow"],
       [download |-> "timeout",    content |-> "cow"],
       [download |-> "http_error", content |-> "cow"],
       [download |-> "ok",         content |-> "garbage"],
       [download |-> "ok",         content |-> "truncated"],
       [download |-> "ok",         content |-> "poison"],
       [download |-> "ok",         content |-> "buffalo"] >>

Urls == { UrlCatalogue[n] : n \in 1..Min(NumUrlKinds, Len(UrlCatalogue)) }

\* the upload that stands for the body behind a URL
UrlBody(u) ==
    [filename |-> <<"", << >>>>,
        has_size |-> FALSE, size |-> 0, content |-> u.content]

\* the score vectors the network returns for an image
ImageScores(content) ==
    IF content = "cow"
    THEN [animal_type |-> Vec(<<900, 100>>),
          breed       |-> BreedVector(<<910, 40, 30, 20>>, <<5, 6, 2, 32>>),
          age         |-> Vec(<<700, 100, 100, 100>>),
          gender      |-> Vec(<<500, 500>>),
          health      |-> Vec(<<850, 100, 50>>)]
    ELSE [animal_type |-> Vec(<<100, 900>>),
          breed       |-> BreedVector(<<449, 301, 150, 100>>, <<50, 47, 55, 48>>),
          age         |-> Vec(<<250, 250, 250, 250>>),
          gender      |-> Vec(<<350, 650>>),
          health      |-> Vec(<<100, 450, 450>>)]

NoResponse == [status |-> 0, body |-> << >>]

IdleReq ==
    [endpoint |-> "none", files |-> << >>, download |-> "none", pc |-> "idle",
     i |-> 0, predicted |-> << >>, results |-> << >>, log |-> << >>,
     resp |-> NoResponse]

\* a request as it enters its handler
NewReq(endpoint, files, download, pc) ==
    [IdleReq EXCEPT !.endpoint = endpoint, !.files = files,
                    !.download = download, !.pc = pc]

\* batches of 1..MaxFiles uploads, batches of good uploads up to one more
\* than the limit, and a batch with one undecodable upload among five good
\* ones
Batches ==
    UNION { [1..n -> Files] : n \in 1..MaxFiles }
    \cup { [k \in 1..n |-> GoodFile] : n \in (MAX_BATCH - 1)..(MAX_BATCH + 1) }
    \cup { [k \in 1..6 |-> IF k = 3 THEN FileCatalogue[2] ELSE GoodFile] }

AllRequests ==
    { NewReq("classify", <<f>>, "none", "check_model") : f \in Files }
    \cup { NewReq("batch", b, "none", "check_model") : b \in Batches }
    \cup { NewReq("url", <<UrlBody(u)>>, u.download, "check_model") : u \in Urls }
    \cup { NewReq("health", << >>, "none", "health"),
           NewReq("root", << >>, "none", "root"),
           NewReq("breeds", << >>, "none", "breeds") }

\* With several requests in flight only these are sent, so that their
\* interleavings stay enumerable.
BasicRequests ==
    { NewReq("classify", <<f>>, "none", "check_model") :
          f \in {FileCatalogue[1], FileCatalogue[2], FileCatalogue[5]} }
    \cup { NewReq("batch", <<FileCatalogue[1], FileCatalogue[2]>>, "none", "check_model"),
           NewReq("url", <<UrlBody(UrlCatalogue[1])>>, "ok", "check_model"),
           NewReq("health", << >>, "none", "health"),
           NewReq("root", << >>, "none", "root"),
           NewReq("breeds", << >>, "none", "breeds") }

Offered == IF clients = 1 THEN AllRequests ELSE BasicRequests

\* the handler is parked (at its await) or has no more to run
Parked == {"idle", "read_wait", "done"}

CurrentFile(rq) == rq.files[rq.i + 1]

Logged(rq, what) == [rq EXCEPT !.log = Append(@, <<what, rq.i>>)]

\* the response leaves the handler: JSON of the given status
Respond(rq, status, body) ==
    [rq EXCEPT !.pc = "done", !.resp = [status |-> status, body |-> body]]

\* http_exception_handler
ErrorBody(status, detail) ==
    [success |-> FALSE, error |-> detail, status_code |-> status]

HTTPException(status, detail) ==
    [type |-> "HTTPException", status |-> status, detail |-> detail]

RequestException(detail) ==
    [type |-> "RequestException", status |-> 0, detail |-> detail]

Exception(detail) ==
    [type |-> "Exception", status |-> 0, detail |-> detail]

\* str(e): a fastapi HTTPException prints as '<status_code>: <detail>',
\* every other exception as its message
str(exc) ==
    IF exc.type = "HTTPException"
    THEN ToString(exc.status) \o ": " \o exc.detail
    ELSE exc.detail

\* a batch loop that is left after its first file
NextFile_first_only(rq) ==
    [rq EXCEPT !.pc = "finish", !.predicted = << >>]

\* batch loop: on to the next file, or out of the loop
NextFile(rq) ==
    IF rq.i + 1 < Len(rq.files)
    THEN [rq EXCEPT !.i = rq.i + 1, !.pc = "validate", !.predicted = << >>]
    ELSE [rq EXCEPT !.pc = "finish", !.predicted = << >>]

\* a handler whose batch loop does not catch: the exception of one file
\* ends the request
Raise_abort(rq, exc) ==
    CASE rq.endpoint = "classify" ->
            IF exc.type = "HTTPException"
            THEN Respond(rq, exc.status, ErrorBody(exc.status, exc.detail))
            ELSE Respond(rq, 500, ErrorBody(500, "Classification failed"))
      [] rq.endpoint = "batch" ->
            Respond(rq, 500, ErrorBody(500, "Batch classification failed"))
      [] rq.endpoint = "url" ->
            IF exc.type = "RequestException"
            THEN Respond(rq, 400, ErrorBody(400, "Failed to download image"))
            ELSE Respond(rq, 500, ErrorBody(500, "URL classification failed"))

\* An exception raised inside the try block of a handler.
\*   classify_image:          except HTTPException: raise; except Exception: 500
\*   classify_batch_images:   the inner except Exception records it for file i
\*   classify_image_from_url: except requests.RequestException: 400;
\*                            except Exception: 500
Raise(rq, exc) ==
    CASE rq.endpoint = "classify" ->
            IF exc.type = "HTTPException"
            THEN Respond(rq, exc.status, ErrorBody(exc.status, exc.detail))
            ELSE Respond(rq, 500, ErrorBody(500, "Classification failed"))
      [] rq.endpoint = "batch" ->
            NextFile([rq EXCEPT !.results = Append(@,
                [filename |-> CurrentFile(rq).filename, index |-> rq.i,
                 success |-> FALSE, error |-> str(exc)])])
      [] rq.endpoint = "url" ->
            IF exc.type = "RequestException"
            THEN Respond(rq, 400, ErrorBody(400, "Failed to download image"))
            ELSE Respond(rq, 500, ErrorBody(500, "URL classification failed"))

\* the slot's handler takes the step to `new`; it keeps the loop unless the
\* step parks it
Step(r, new) ==
    /\ req' = [req EXCEPT ![r] = new]
    /\ running' = IF new.pc \in Parked THEN 0 ELSE r

pureVars == <<taxVars, pipeVars, topkVars, clfVars, toolVars, stage>>

\* startup_event: the three calls in its try block; an exception in any of
\* them is logged and swallowed.
Startup ==
    /\ ~started
    /\ \E outcome \in {"loaded", "init_raises", "build_raises", "compile_raises"} :
          model' = CASE outcome = "init_raises" -> NoModel
                     [] outcome = "build_raises" ->
                            [obj |-> TRUE, net |-> FALSE, compiled |-> FALSE]
                     [] outcome = "compile_raises" ->
                            [obj |-> TRUE, net |-> TRUE, compiled |-> FALSE]
                     [] outcome = "loaded" ->
                            [obj |-> TRUE, net |-> TRUE, compiled |-> TRUE]
    /\ started' = TRUE
    /\ UNCHANGED <<clients, req, running, pureVars>>

\* a server that starts a handler while another one is in the middle of
\* its synchronous code
Arrive_preempting(r) ==
    /\ started
    /\ r <= clients
    /\ req[r].pc = "idle"
    /\ \E rq \in Offered : Step(r, rq)
    /\ UNCHANGED <<model, started, clients, pureVars>>

\* a request reaches its handler
Arrive(r) ==
    /\ started /\ running = 0
    /\ r <= clients
    /\ req[r].pc = "idle"
    /\ \E rq \in Offered : Step(r, rq)
    /\ UNCHANGED <<model, started, clients, pureVars>>

\* the response has been sent; the slot is free again
Close(r) ==
    /\ req[r].pc = "done"
    /\ req' = [req EXCEPT ![r] = IdleReq]
    /\ UNCHANGED <<model, started, clients, running, pureVars>>

\* health_check
HealthCheck(r) ==
    /\ running = r /\ req[r].pc = "health"
    /\ Step(r, Respond(req[r], 200,
            [status |-> IF model.obj THEN "healthy" ELSE "model_not_loaded",
             model_loaded |-> model.obj,
             supported_breeds |->
                [cattle |-> Len(CATTLE_BREEDS), buffalo |-> Len(BUFFALO_BREEDS),
                 total |-> Len(CATTLE_BREEDS) + Len(BUFFALO_BREEDS)]]))
    /\ UNCHANGED <<model, started, clients, pureVars>>

\* root
Root(r) ==
    /\ running = r /\ req[r].pc = "root"
    /\ Step(r, Respond(req[r], 200, [status |-> "active"]))
    /\ UNCHANGED <<model, started, clients, pureVars>>

\* get_supported_breeds
GetBreeds(r) ==
    /\ running = r /\ req[r].pc = "breeds"
    /\ Step(r, Respond(req[r], 200,
            [success |-> TRUE,
             data |-> [cattle_breeds |-> CATTLE_BREEDS,
                       buffalo_breeds |-> BUFFALO_BREEDS,
                       total_breeds |-> Len(CATTLE_BREEDS) + Len(BUFFALO_BREEDS)]]))
    /\ UNCHANGED <<model, started, clients, pureVars>>

\* a handler that loads the model itself when startup left none
CheckModel_lazy(r) ==
    /\ running = r /\ req[r].pc = "check_model"
    /\ model' = IF ~model.obj
                THEN [obj |-> TRUE, net |-> TRUE, compiled |-> TRUE]
                ELSE model
    /\ Step(r, [req[r] EXCEPT !.pc =
                    CASE req[r].endpoint = "classify" -> "validate"
                      [] req[r].endpoint = "batch"    -> "check_size"
                      [] req[r].endpoint = "url"      -> "fetch"])
    /\ UNCHANGED <<started, clients, pureVars>>

\* `if model is None: raise HTTPException(503)`, the first statement of the
\* three classification handlers, outside their try blocks
CheckModel(r) ==
    /\ running = r /\ req[r].pc = "check_model"
    /\ Step(r, IF ~model.obj
               THEN Respond(req[r], 503, ErrorBody(503, "AI model not loaded"))
               ELSE [req[r] EXCEPT !.pc =
                        CASE req[r].endpoint = "classify" -> "validate"
                          [] req[r].endpoint = "batch"    -> "check_size"
                          [] req[r].endpoint = "url"      -> "fetch"])
    /\ UNCHANGED <<model, started, clients, pureVars>>

\* the size check with the limit itself rejected
CheckBatchSize_ge(r) ==
    /\ running = r /\ req[r].pc = "check_size"
    /\ Step(r, IF Len(req[r].files) >= MAX_BATCH
               THEN Respond(req[r], 400, ErrorBody(400, "Maximum 10 images allowed"))
               ELSE [req[r] EXCEPT !.pc = "validate"])
    /\ UNCHANGED <<model, started, clients, pureVars>>

\* classify_batch_images: `if len(files) > 10: raise HTTPException(400)`
CheckBatchSize(r) ==
    /\ running = r /\ req[r].pc = "check_size"
    /\ Step(r, IF Len(req[r].files) > MAX_BATCH
               THEN Respond(req[r], 400, ErrorBody(400, "Maximum 10 images allowed"))
               ELSE [req[r] EXCEPT !.pc = "validate"])
    /\ UNCHANGED <<model, started, clients, pureVars>>

\* the exception validate_image raises for a file, or "ok"
validate_image(file) ==
    IF file.has_size /\ file.size # 0 /\ file.size > MAX_FILE_SIZE
    THEN HTTPException(413, "File size too large")
    ELSE IF file.filename # <<"", << >>>>
            /\ Lower(file.filename[2]) \notin ALLOWED_EXTENSIONS
    THEN HTTPException(400, "Invalid file format")
    ELSE [type |-> "ok", status |-> 0, detail |-> ""]

ValidateImage(r) ==
    /\ running = r /\ req[r].pc = "validate"
    /\ LET rq == Logged(req[r], "validate")
           v  == validate_image(CurrentFile(rq))
       IN  Step(r, IF v.type = "ok" THEN [rq EXCEPT !.pc = "read"] ELSE Raise(rq, v))
    /\ UNCHANGED <<model, started, clients, pureVars>>

\* `await file.read()`: the handler is parked until the bytes are there
AwaitRead(r) ==
    /\ running = r /\ req[r].pc = "read"
    /\ Step(r, [Logged(req[r], "read") EXCEPT !.pc = "read_wait"])
    /\ UNCHANGED <<model, started, clients, pureVars>>

\* the read completes and the loop resumes the handler
ResumeRead(r) ==
    /\ running = 0 /\ req[r].pc = "read_wait"
    /\ Step(r, IF CurrentFile(req[r]).content = "unreadable"
               THEN Raise(req[r], Exception("read failed"))
               ELSE [req[r] EXCEPT !.pc = "open"])
    /\ UNCHANGED <<model, started, clients, pureVars>>

\* a download whose failure is not a requests.RequestException
FetchUrl_generic(r) ==
    /\ running = r /\ req[r].pc = "fetch"
    /\ LET rq == Logged(req[r], "fetch")
       IN  Step(r, IF rq.download = "ok"
                   THEN [rq EXCEPT !.pc = "open"]
                   ELSE Raise(rq, Exception(rq.download)))
    /\ UNCHANGED <<model, started, clients, pureVars>>

\* requests.get(image_url, timeout=10); response.raise_for_status()
FetchUrl(r) ==
    /\ running = r /\ req[r].pc = "fetch"
    /\ LET rq == Logged(req[r], "fetch")
       IN  Step(r, IF rq.download = "ok"
                   THEN [rq EXCEPT !.pc = "open"]
                   ELSE Raise(rq, RequestException(rq.download)))
    /\ UNCHANGED <<model, started, clients, pureVars>>

\* Image.open(io.BytesIO(...)): PIL raises UnidentifiedImageError, an
\* OSError, on bytes it cannot identify
OpenImage(r) ==
    /\ running = r /\ req[r].pc = "open"
    /\ LET rq == Logged(req[r], "open")
       IN  Step(r, IF CurrentFile(rq).content = "garbage"
                   THEN Raise(rq, Exception("cannot identify image file"))
                   ELSE [rq EXCEPT !.pc = "preprocess"])
    /\ UNCHANGED <<model, started, clients, pureVars>>

\* preprocess_image: any exception of convert, resize or np.array becomes
\* HTTPException(400)
PreprocessImage(r) ==
    /\ running = r /\ req[r].pc = "preprocess"
    /\ LET rq == Logged(req[r], "preprocess")
       IN  Step(r, IF CurrentFile(rq).content = "truncated"
                   THEN Raise(rq, HTTPException(400, "Image preprocessing failed"))
                   ELSE [rq EXCEPT !.pc = "predict"])
    /\ UNCHANGED <<model, started, clients, pureVars>>

\* a handler that calls predict_single a second time when the first call
\* raised
Predict_retry(r) ==
    /\ running = r /\ req[r].pc = "predict"
    /\ LET rq    == Logged(req[r], "predict")
           first == \A m \in 1..Len(req[r].log) : req[r].log[m] # <<"predict", rq.i>>
       IN  IF ~model.net \/ CurrentFile(rq).content = "poison"
           THEN Step(r, IF first THEN rq
                        ELSE Raise(rq, Exception("inference failed")))
           ELSE \E res \in predict_single(ImageScores(CurrentFile(rq).content)) :
                    Step(r, [rq EXCEPT !.predicted = res, !.pc = "enhance"])
    /\ UNCHANGED <<model, started, clients, pureVars>>

\* model.predict_single(processed_image): ValueError when self.model is
\* None, whatever self.model.predict raises, or the results dictionary
Predict(r) ==
    /\ running = r /\ req[r].pc = "predict"
    /\ LET rq == Logged(req[r], "predict")
       IN  IF ~model.net
           THEN Step(r, Raise(rq, Exception("Model must be built and loaded first")))
           ELSE IF CurrentFile(rq).content = "poison"
           THEN Step(r, Raise(rq, Exception("inference failed")))
           ELSE \E res \in predict_single(ImageScores(CurrentFile(rq).content)) :
                    Step(r, [rq EXCEPT !.predicted = res, !.pc = "enhance"])
    /\ UNCHANGED <<model, started, clients, pureVars>>

\* enhance_prediction_results(predictions) and what follows it: the
\* response of /classify and /classify/url, the success entry of a batch
EnhanceResults(r) ==
    /\ running = r /\ req[r].pc = "enhance"
    /\ LET rq == Logged(req[r], "enhance")
           e  == enhance_prediction_results(rq.predicted)
       IN  Step(r, IF rq.endpoint = "batch"
                   THEN NextFile([rq EXCEPT !.results = Append(@,
                            [filename |-> CurrentFile(rq).filename, index |-> rq.i,
                             success |-> TRUE, results |-> e])])
                   ELSE Respond([rq EXCEPT !.predicted = << >>], 200,
                            [success |-> TRUE, data |-> e]))
    /\ UNCHANGED <<model, started, clients, pureVars>>

\* classify_batch_images after its loop
FinishBatch(r) ==
    /\ running = r /\ req[r].pc = "finish"
    /\ LET rs == req[r].results
       IN  Step(r, Respond(req[r], 200,
              [success |-> TRUE,
               data |-> [results |-> rs,
                         total_images |-> Len(req[r].files),
                         successful_classifications |->
                            Cardinality({n \in 1..Len(rs) : rs[n].success}),
                         failed_classifications |->
                            Cardinality({n \in 1..Len(rs) : ~rs[n].success})]]))
    /\ UNCHANGED <<model, started, clients, pureVars>>

Handler(r) ==
    \/ Arrive(r) \/ Close(r)
    \/ HealthCheck(r) \/ Root(r) \/ GetBreeds(r)
    \/ CheckModel(r) \/ CheckBatchSize(r)
    \/ ValidateImage(r) \/ AwaitRead(r) \/ ResumeRead(r)
    \/ FetchUrl(r) \/ OpenImage(r) \/ PreprocessImage(r)
    \/ Predict(r) \/ EnhanceResults(r) \/ FinishBatch(r)

Slots == 1..MaxReq

Next == Startup \/ \E r \in Slots : Handler(r)

SrvInit(n) ==
    /\ model = NoModel /\ started = FALSE /\ running = 0
    /\ clients = n
    /\ req = [r \in Slots |-> IdleReq]
    /\ stage = "serving"
    /\ TaxIdle /\ PipeIdle /\ TopKIdle /\ ClfIdle /\ ToolIdle

\* requests served one after the other, of every kind
Init == SrvInit(1)

Spec == Init /\ [][Next]_vars

\* The steps the server takes by itself: startup, and every step of a
\* handler once its request has arrived.  The event loop runs a handler
\* that can run, and the file read a handler awaits completes.
Serve(r) ==
    \/ HealthCheck(r) \/ Root(r) \/ GetBreeds(r)
    \/ CheckModel(r) \/ CheckBatchSize(r)
    \/ ValidateImage(r) \/ AwaitRead(r) \/ ResumeRead(r)
    \/ FetchUrl(r) \/ OpenImage(r) \/ PreprocessImage(r)
    \/ Predict(r) \/ EnhanceResults(r) \/ FinishBatch(r)

\* requests served one after the other by a server that keeps running
LiveSpec == Init /\ [][Next]_vars /\ \A r \in Slots : WF_vars(Serve(r))

\* up to MaxReq requests in flight
ConcInit == SrvInit(MaxReq)

ConcSpec == ConcInit /\ [][Next]_vars

-----------------------------------------------------------------------------
(* Properties of the enrichment layer and of predict_single (PipeSpec).    *)

Tasks == {"animal_type", "breed", "age", "gender", "health"}

\* the label list a task's indices are read against
TaskLabels(task) ==
    CASE task = "animal_type" -> << "cattle", "buffalo" >>
      [] task = "breed"       -> all_breeds
      [] task = "age"         -> << "young", "adult", "mature", "old" >>
      [] task = "gender"      -> << "male", "female" >>
      [] task = "health"      -> << "healthy", "moderate", "poor" >>

\* the band of a confidence given in thousandths
InBand(c, level) ==
    \/ level = "high"      /\ c >= 850
    \/ level = "medium"    /\ 650 <= c /\ c < 850
    \/ level = "low"       /\ 450 <= c /\ c < 650
    \/ level = "uncertain" /\ c < 450

\* C1: every task of the enriched result carries a confidence_level, and it
\* is the band of that task's confidence: high from 0.85, medium from 0.65,
\* low from 0.45, uncertain below, each threshold belonging to the higher
\* band.
C1_ConfidenceLevelBands ==
    stage = "enhanced" =>
        /\ DOMAIN enhanced = Tasks
        /\ \A task \in Tasks :
              /\ "confidence_level" \in DOMAIN enhanced[task]
              /\ InBand(enhanced[task]["confidence"], enhanced[task]["confidence_level"])

C1_Witness ==
    /\ stage = "enhanced"
    /\ enhanced["breed"]["confidence"] = 650
    /\ enhanced["breed"]["confidence_level"] = "medium"
    /\ enhanced["health"]["confidence"] = 850
    /\ enhanced["health"]["confidence_level"] = "high"
    /\ enhanced["gender"]["confidence"] = 500
    /\ enhanced["gender"]["confidence_level"] = "low"

\* C2: the enriched breed entry has needs_verification, and it is true
\* exactly when the breed confidence is below 0.85.
C2_NeedsVerificationIffBelowHigh ==
    stage = "enhanced" =>
        /\ "needs_verification" \in DOMAIN enhanced["breed"]
        /\ enhanced["breed"]["needs_verification"]
              = (enhanced["breed"]["confidence"] < 850)

C2_Witness ==
    /\ stage = "enhanced"
    /\ enhanced["breed"]["confidence"] = 850
    /\ enhanced["breed"]["needs_verification"] = FALSE

\* C3: the enriched breed entry has a suggestion exactly when the breed
\* confidence is below 0.45; from 0.45 up to (not including) 0.85 it has
\* needs_verification = true and no suggestion.
C3_SuggestionIffBelowLow ==
    stage = "enhanced" =>
        LET b == enhanced["breed"]
        IN  /\ ("suggestion" \in DOMAIN b) = (b["confidence"] < 450)
            /\ (450 <= b["confidence"] /\ b["confidence"] < 850)
                  => b["needs_verification"] = TRUE /\ "suggestion" \notin DOMAIN b

C3_Witness ==
    /\ stage = "enhanced"
    /\ enhanced["breed"]["confidence"] = 450
    /\ enhanced["breed"]["needs_verification"] = TRUE
    /\ "suggestion" \notin DOMAIN enhanced["breed"]

\* C4: the first entry of top_3 names the breed of the 'prediction' field.
C4_Top3FirstIsPrediction ==
    stage = "predicted" =>
        results["breed"]["top_3"][1]["breed"] = results["breed"]["prediction"]

\* C8 as stated: a breed vector with 0.91 at index 5 and every other entry
\* below 0.05 is reported as 'Gir', 0.91, 'high', needs_verification false.
C8_Index5IsGir ==
    (/\ stage = "enhanced"
     /\ predictions["breed"][5] = 910
     /\ \A i \in DOMAIN predictions["breed"] : i # 5 => predictions["breed"][i] < 50)
    => /\ enhanced["breed"]["prediction"] = "Gir"
       /\ enhanced["breed"]["confidence"] = 910
       /\ enhanced["breed"]["confidence_level"] = "high"
       /\ enhanced["breed"]["needs_verification"] = FALSE

\* C8 as amended: such a vector is reported as 'Gaolao', the sixth entry of
\* CATTLE_BREEDS, with confidence 0.91, level 'high' and needs_verification
\* false.
C8_Index5IsGaolao ==
    (/\ stage = "enhanced"
     /\ predictions["breed"][5] = 910
     /\ \A i \in DOMAIN predictions["breed"] : i # 5 => predictions["breed"][i] < 50)
    => /\ enhanced["breed"]["prediction"] = "Gaolao"
       /\ enhanced["breed"]["confidence"] = 910
       /\ enhanced["breed"]["confidence_level"] = "high"
       /\ enhanced["breed"]["needs_verification"] = FALSE

C8_Witness ==
    /\ stage = "enhanced"
    /\ predictions["breed"][5] = 910
    /\ \A i \in DOMAIN predictions["breed"] : i # 5 => predictions["breed"][i] < 50
    /\ enhanced["breed"]["prediction"] = "Gaolao"

\* C9: for each task the prediction is the label at the lowest index that
\* holds the maximum of the task's score vector, and the confidence is that
\* maximum.
C9_PredictionIsFirstArgMax ==
    stage = "predicted" =>
        \A task \in Tasks :
            LET v == predictions[task]
            IN  \E i \in DOMAIN v :
                   /\ \A j \in DOMAIN v : v[j] <= v[i]
                   /\ \A j \in DOMAIN v : j < i => v[j] < v[i]
                   /\ results[task]["prediction"] = TaskLabels(task)[i + 1]
                   /\ results[task]["confidence"] = v[i]

C9_Witness ==
    /\ stage = "predicted"
    /\ predictions["animal_type"][0] = predictions["animal_type"][1]
    /\ results["animal_type"]["prediction"] = "cattle"
    /\ predictions["age"][1] = predictions["age"][2]
    /\ results["age"]["prediction"] = "adult"
    /\ predictions["breed"][0] = 450 /\ predictions["breed"][77] = 450
    /\ results["breed"]["prediction"] = "Amritmahal"

\* C26: in the enriched result needs_verification of the breed is false
\* exactly when its confidence_level is 'high', and it has a suggestion
\* exactly when its confidence_level is 'uncertain', in which case
\* needs_verification is true.
C26_BreedFieldsConsistent ==
    stage = "enhanced" =>
        LET b == enhanced["breed"]
        IN  /\ (b["needs_verification"] = FALSE) = (b["confidence_level"] = "high")
            /\ ("suggestion" \in DOMAIN b) = (b["confidence_level"] = "uncertain")
            /\ b["confidence_level"] = "uncertain" => b["needs_verification"] = TRUE

C26_Witness ==
    /\ stage = "enhanced"
    /\ enhanced["breed"]["confidence_level"] = "uncertain"
    /\ enhanced["breed"]["needs_verification"] = TRUE
    /\ "suggestion" \in DOMAIN enhanced["breed"]
    /\ enhanced["breed"]["confidence"] = 449

\* C27: the confidence of the first top_3 entry is the breed confidence,
\* which is the maximum of the breed vector, and no top_3 entry has a
\* greater confidence, whichever way ties are ordered.
C27_Top3FirstConfidenceIsMax ==
    stage = "predicted" =>
        LET b == results["breed"]
            v == predictions["breed"]
        IN  /\ b["top_3"][1]["confidence"] = b["confidence"]
            /\ \A i \in DOMAIN v : v[i] <= b["confidence"]
            /\ \A n \in 1..Len(b["top_3"]) :
                  b["top_3"][n]["confidence"] <= b["confidence"]

\* a tie at the top in which top_3 begins with the other breed
C27_Witness ==
    /\ stage = "predicted"
    /\ results["breed"]["confidence"] = 450
    /\ results["breed"]["top_3"][1]["breed"] # results["breed"]["prediction"]
    /\ results["breed"]["top_3"][1]["confidence"] = 450
    /\ results["breed"]["top_3"][2]["confidence"] = 450

\* C28: enhance_prediction_results applied to its own output returns that
\* output, and in the output, as in the output of the second application,
\* every task's prediction and confidence and the breed's top_3 are those
\* of the raw input.
C28_EnhanceIdempotent ==
    [][(stage = "predicted" /\ stage' = "enhanced")
       => LET once  == enhanced'
              twice == enhance_prediction_results(enhanced')
          IN  /\ twice = once
              /\ \A task \in Tasks :
                    /\ once[task]["prediction"] = results[task]["prediction"]
                    /\ once[task]["confidence"] = results[task]["confidence"]
                    /\ twice[task]["prediction"] = results[task]["prediction"]
                    /\ twice[task]["confidence"] = results[task]["confidence"]
              /\ once["breed"]["top_3"] = results["breed"]["top_3"]
              /\ twice["breed"]["top_3"] = results["breed"]["top_3"]]_vars

C28_Witness ==
    /\ stage = "enhanced"
    /\ enhance_prediction_results(enhanced) = enhanced
    /\ enhanced["breed"]["confidence"] = 250
    /\ enhanced["age"]["confidence_level"] = "medium"

\* C17: the call of enhance_prediction_results leaves the dictionary it
\* was given as it was: the caller's results, with every per-task
\* dictionary in it, are the same after the call as before, without any
\* confidence_level, needs_verification or suggestion key.
C17_EnhanceLeavesInputUnchanged ==
    [][(stage = "predicted" /\ stage' = "enhanced") => results' = results]_vars

-----------------------------------------------------------------------------
(* Properties of _get_top_k_breeds (TopKSpec).                             *)

\* C5: for a vector of length n the list has min(3, n) entries, their
\* confidences do not increase along the list, and the entries are those of
\* pairwise distinct indices of the vector.
C5_TopKShape ==
    stage = "ranked" =>
        /\ Len(top_k) = Min(3, VecLen(scores))
        /\ \A n \in 1..(Len(top_k) - 1) :
              top_k[n]["confidence"] >= top_k[n + 1]["confidence"]
        /\ \E t \in [1..Len(top_k) -> DOMAIN scores] :
              /\ \A a, b \in 1..Len(top_k) : a # b => t[a] # t[b]
              /\ \A n \in 1..Len(top_k) :
                    /\ top_k[n]["confidence"] = scores[t[n]]
                    /\ top_k[n]["breed"] = all_breeds[t[n] + 1]

C5_Witness ==
    /\ stage = "ranked"
    /\ VecLen(scores) = 2
    /\ Len(top_k) = 2
    /\ top_k[1]["confidence"] > top_k[2]["confidence"]

-----------------------------------------------------------------------------
(* Properties of the taxonomy (TaxSpec).                                   *)

InList(name, list) == \E n \in 1..Len(list) : list[n] = name

\* C6: looking the resolved label up again, in breed_to_idx and in
\* ID_TO_BREED, gives the index that was resolved.
C6_IndexRoundTrip ==
    stage = "back" =>
        /\ idx_back = breed_index
        /\ KeyIndex(id_back) = breed_index

\* C7: the label of index i is a cattle breed exactly when i < 47 and a
\* buffalo breed exactly when i >= 47.
C7_RangesDisjoint ==
    stage \in {"name", "back"} =>
        /\ InList(breed_name, CATTLE_BREEDS) = (breed_index < 47)
        /\ InList(breed_name, BUFFALO_BREEDS) = (breed_index >= 47)

-----------------------------------------------------------------------------
(* Properties of the output layers (NetSpec).                              *)

\* a float32 in units of 2^-MantissaBits, rounded down and rounded up
Below(x) ==
    IF x.places <= MantissaBits
    THEN x.mantissa * 2 ^ (MantissaBits - x.places)
    ELSE x.mantissa \div 2 ^ (x.places - MantissaBits)

Above(x) ==
    IF x.places <= MantissaBits
    THEN x.mantissa * 2 ^ (MantissaBits - x.places)
    ELSE (x.mantissa + 2 ^ (x.places - MantissaBits) - 1) \div 2 ^ (x.places - MantissaBits)

\* bounds of the sum of a vector of float32 from below and from above
SumBelow(v) == Sum([i \in DOMAIN v |-> Below(v[i])])

SumAbove(v) == Sum([i \in DOMAIN v |-> Above(v[i])])

\* C22: the score vector of each task has the task's length (breed 78,
\* animal_type 2, age 4, gender 2, health 3), its scores are not negative
\* and they sum to 1 within 1e-5.
C22_SimplexPerTask ==
    stage = "scores" =>
        LET lengths == [breed |-> 78, animal_type |-> 2, age |-> 4,
                        gender |-> 2, health |-> 3]
            tol     == ONE \div 100000
        IN  \A task \in {"breed", "animal_type", "age", "gender", "health"} :
               LET v == heads.outputs[task]
               IN  /\ DOMAIN v = 0..(lengths[task] - 1)
                   /\ \A i \in DOMAIN v : v[i].mantissa >= 0
                   /\ SumBelow(v) >= ONE - tol
                   /\ SumAbove(v) <= ONE + tol

\* all 78 breed scores equal: no float32 is 1/78
C22_Witness ==
    /\ stage = "scores"
    /\ \A i \in DOMAIN heads.outputs["breed"] :
          heads.outputs["breed"][i] = heads.outputs["breed"][0]
    /\ SumBelow(heads.outputs["breed"]) < ONE
    /\ SumAbove(heads.outputs["breed"]) > ONE

-----------------------------------------------------------------------------
(* Properties of the classifier instance (ClfSpec).                        *)

\* C18: on a built classifier predict_single returns, for one image and
\* for an array of N images alike, a dictionary in which every task's
\* prediction is the label at the arg-max of the score vector of one of the
\* images; it raises nothing and no prediction is 'Unknown'.
C18_ArrayPrediction ==
    (call.op = "predict_single" /\ call.raised # "ValueError")
    => /\ call.returned
       /\ \A task \in Tasks :
             \E n \in 1..Len(image.images) :
                call.value[task].prediction
                    = TaskLabels(task)[np_argmax(image.images[n][task]) + 1]

\* C19: predict_single and compile_model raise the ValueError of the
\* self.model check, and return nothing, when build_model has not completed
\* on the instance; when it has, neither raises it, compile_model returns
\* and predict_single of one image returns its dictionary.
C19_NotBuiltRaises ==
    [][(/\ <<classifier, call>>' # <<classifier, call>>
        /\ call'.op \in {"predict_single", "compile_model"})
       => IF ~classifier.net
          THEN call'.raised = "ValueError" /\ ~call'.returned
               /\ classifier' = classifier
          ELSE /\ call'.raised # "ValueError"
               /\ call'.op = "compile_model" => call'.returned
               /\ (call'.op = "predict_single" /\ Len(image.images) = 1)
                     => call'.returned /\ DOMAIN call'.value = Tasks]_vars

C19_Witness ==
    /\ stage = "lifecycle"
    /\ ~classifier.net
    /\ call.op = "predict_single"
    /\ call.raised = "ValueError" /\ ~call.returned

-----------------------------------------------------------------------------
(* Properties of the serving process (Spec).                               *)

\* the constructor, build_model and compile_model all completed
ModelInitialised == model.obj /\ model.net /\ model.compiled

ClassifyEndpoints == {"classify", "batch", "url"}

\* C10: when the model was not successfully initialised at startup, a
\* request to /classify, /classify/batch or /classify/url is answered with
\* 503, and nothing of it is validated, read, fetched, decoded,
\* preprocessed or classified.
C10_Uninitialised503 ==
    \A r \in Slots :
        (started /\ ~ModelInitialised /\ req[r].endpoint \in ClassifyEndpoints)
        => /\ req[r].log = << >>
           /\ req[r].pc = "done" => req[r].resp.status = 503

\* the handler of slot r has logged the step `what` for some file
HasLogged(r, what) ==
    \E n \in 1..Len(req[r].log) : req[r].log[n][1] = what

\* C11: with the model loaded, a batch of more than 10 files is answered
\* with 400 and none of its files is validated, read, decoded, preprocessed
\* or classified; a batch of exactly 10 files passes the size check: its
\* files are validated and it is not answered with 400.
C11_BatchLimit ==
    \A r \in Slots :
        (ModelInitialised /\ req[r].endpoint = "batch")
        => /\ Len(req[r].files) > 10
                => /\ req[r].log = << >>
                   /\ req[r].pc = "done" => req[r].resp.status = 400
           /\ (Len(req[r].files) = 10 /\ req[r].pc = "done")
                => /\ req[r].resp.status = 200
                   /\ HasLogged(r, "validate")

C11_Witness ==
    \E r \in Slots :
        /\ ModelInitialised /\ req[r].endpoint = "batch"
        /\ Len(req[r].files) = 11
        /\ req[r].pc = "done" /\ req[r].resp.status = 400
        /\ req[r].log = << >>

\* an upload that cannot be classified: too large by its reported size, a
\* name with an extension outside the list, bytes that cannot be read,
\* decoded or preprocessed, or an image on which inference fails
Faulty(f) ==
    \/ f.has_size /\ f.size > 10485760
    \/ f.filename # <<"", << >>>>
          /\ Lower(f.filename[2]) \notin ALLOWED_EXTENSIONS
    \/ f.content \in {"unreadable", "garbage", "truncated", "poison"}

\* C12: with the model loaded, a batch of at most 10 files is answered with
\* a success response that has one entry per file, in order: entry i is a
\* failure entry exactly when file i cannot be classified, every file has
\* been validated whatever happened to the files before it, and the counts
\* add up.
C12_BatchIsolation ==
    \A r \in Slots :
        (/\ ModelInitialised /\ req[r].endpoint = "batch"
         /\ Len(req[r].files) <= 10 /\ req[r].pc = "done")
        => LET fs   == req[r].files
               data == req[r].resp.body.data
               rs   == data.results
           IN  /\ req[r].resp.status = 200
               /\ req[r].resp.body.success
               /\ Len(rs) = Len(fs)
               /\ \A n \in 1..Len(fs) :
                     /\ rs[n].index = n - 1
                     /\ rs[n].filename = fs[n].filename
                     /\ rs[n].success = ~Faulty(fs[n])
                     /\ \E m \in 1..Len(req[r].log) :
                            req[r].log[m] = <<"validate", n - 1>>
               /\ data.total_images = Len(fs)
               /\ data.successful_classifications
                     = Cardinality({n \in 1..Len(fs) : ~Faulty(fs[n])})
               /\ data.failed_classifications
                     = Cardinality({n \in 1..Len(fs) : Faulty(fs[n])})

C12_Witness ==
    \E r \in Slots :
        /\ ModelInitialised /\ req[r].endpoint = "batch" /\ req[r].pc = "done"
        /\ Len(req[r].files) = 6
        /\ req[r].resp.status = 200
        /\ req[r].resp.body.data.successful_classifications = 5
        /\ req[r].resp.body.data.failed_classifications = 1
        /\ ~req[r].resp.body.data.results[3].success
        /\ req[r].resp.body.data.results[4].success

\* C13: with the model loaded, a /classify request whose upload passes
\* validation but whose bytes are not a decodable image is answered with 400.
C13_InvalidImage400 ==
    \A r \in Slots :
        (/\ ModelInitialised /\ req[r].endpoint = "classify"
         /\ req[r].pc = "done"
         /\ validate_image(req[r].files[1]).type = "ok"
         /\ req[r].files[1].content \in {"garbage", "truncated"})
        => req[r].resp.status = 400

\* the steps of a handler that touch the bytes of an upload
ByteSteps == {"read", "open", "preprocess", "predict", "enhance"}

\* C14: on /classify and /classify/batch, no upload of more than 10 MB and
\* no upload whose extension is outside .jpg/.jpeg/.png/.bmp is read,
\* decoded, preprocessed or classified; it has been validated, and once the
\* response is there it is a rejection: the 413 or 400 of validate_image on
\* /classify, a failure entry in a batch.
C14_ValidatedBeforeRead ==
    \A r \in Slots :
        req[r].endpoint \in {"classify", "batch"} =>
            \A n \in 1..Len(req[r].files) :
                LET f == req[r].files[n]
                IN  (\/ f.size > 10485760
                     \/ Lower(f.filename[2]) \notin ALLOWED_EXTENSIONS)
                    => /\ \A m \in 1..Len(req[r].log) :
                              req[r].log[m][2] = n - 1
                                  => req[r].log[m][1] \notin ByteSteps
                       /\ (req[r].pc = "done" /\ req[r].endpoint = "classify"
                              /\ ModelInitialised)
                              => req[r].resp.status \in {400, 413}

\* C15: with the model loaded, /classify/url answers 400 when the download
\* fails (timeout or error status), 500 when the download succeeded and
\* decoding, preprocessing or inference fails, and 200 otherwise.
C15_UrlStatus ==
    \A r \in Slots :
        (model.obj /\ req[r].endpoint = "url" /\ req[r].pc = "done")
        => LET body_fails == \/ req[r].files[1].content
                                    \in {"garbage", "truncated", "poison"}
                             \/ ~model.net
           IN  req[r].resp.status =
                   IF req[r].download # "ok" THEN 400
                   ELSE IF body_fails THEN 500
                   ELSE 200

C15_Witness ==
    \E r \in Slots :
        /\ ModelInitialised /\ req[r].endpoint = "url" /\ req[r].pc = "done"
        /\ req[r].download = "ok"
        /\ req[r].files[1].content = "truncated"
        /\ HasLogged(r, "preprocess")
        /\ req[r].resp.status = 500

\* C16: /health reports model_loaded = true exactly when the model was
\* constructed, built and compiled, and status 'model_not_loaded' when it
\* was not; the total it reports is the cattle count plus the buffalo count.
C16_HealthReportsInitialised ==
    \A r \in Slots :
        (started /\ req[r].endpoint = "health" /\ req[r].pc = "done")
        => LET body == req[r].resp.body
           IN  /\ body.model_loaded = ModelInitialised
               /\ ~ModelInitialised => body.status = "model_not_loaded"
               /\ body.supported_breeds.total
                     = body.supported_breeds.cattle + body.supported_breeds.buffalo

\* C25: the 400 that preprocess_image raises is the status of the response
\* on /classify and on /classify/url alike.
C25_HttpStatusKept ==
    \A r \in Slots :
        (/\ req[r].endpoint \in {"classify", "url"}
         /\ req[r].pc = "done"
         /\ HasLogged(r, "preprocess")
         /\ req[r].files[1].content = "truncated")
        => req[r].resp.status = 400

\* the response of a batch of n files: n entries in the order of the files,
\* each with its index and filename, and counts that add up to n
BatchResponseInOrder(r) ==
    /\ req[r].endpoint = "batch" /\ req[r].pc = "done"
    /\ req[r].resp.status = 200
    /\ LET fs   == req[r].files
           data == req[r].resp.body.data
       IN  /\ Len(data.results) = Len(fs)
           /\ \A n \in 1..Len(fs) :
                 /\ data.results[n].index = n - 1
                 /\ data.results[n].filename = fs[n].filename
           /\ data.total_images = Len(fs)
           /\ data.successful_classifications + data.failed_classifications = Len(fs)

BatchAccepted(r) ==
    /\ ModelInitialised
    /\ req[r].endpoint = "batch"
    /\ Len(req[r].files) <= 10

\* C23: with the model loaded, every batch request of n <= 10 files is
\* answered, and its response has n result entries in the order of the
\* files, entry i with index i and the i-th filename, total_images = n and
\* successful + failed = n.
C23_BatchAnsweredInOrder ==
    \A r \in Slots : BatchAccepted(r) ~> BatchResponseInOrder(r)

C23_Witness ==
    \E r \in Slots :
        /\ BatchAccepted(r) /\ req[r].pc = "done"
        /\ Len(req[r].files) = 10
        /\ req[r].resp.body.data.total_images = 10
        /\ req[r].resp.body.data.results[10].index = 9

\* how often the handler of slot r has taken the step `what` for file i
CountLogged(r, what, i) ==
    Cardinality({ m \in 1..Len(req[r].log) : req[r].log[m] = <<what, i>> })

\* C21: within one request the URL is fetched at most once and
\* predict_single is called at most once for each image, and a request
\* whose fetch or inference failed has been answered without another
\* attempt.
C21_NoRetry ==
    \A r \in Slots :
        /\ CountLogged(r, "fetch", 0) <= 1
        /\ \A n \in 1..Len(req[r].files) : CountLogged(r, "predict", n - 1) <= 1
        /\ (req[r].endpoint = "url" /\ req[r].download # "ok"
              /\ CountLogged(r, "fetch", 0) = 1)
              => req[r].pc = "done"
        /\ (req[r].endpoint \in {"classify", "url"}
              /\ CountLogged(r, "predict", 0) = 1
              /\ (~model.net \/ req[r].files[1].content = "poison"))
              => req[r].pc = "done"

C21_Witness ==
    \E r \in Slots :
        /\ req[r].endpoint = "batch" /\ req[r].pc = "done"
        /\ Len(req[r].files) = 2
        /\ req[r].files[1].content = "poison"
        /\ CountLogged(r, "predict", 0) = 1
        /\ CountLogged(r, "predict", 1) = 1
        /\ ~req[r].resp.body.data.results[1].success

-----------------------------------------------------------------------------
(* Properties of the serving process with requests in flight (ConcSpec).   *)

\* what a successful classification of the upload f may return
ResultsOf(f) ==
    { enhance_prediction_results(p) : p \in predict_single(ImageScores(f.content)) }

\* C24: at any time at most one handler is between two of its awaits, and
\* it is the one the event loop is running, so at most one call of
\* predict_single is in progress; the other handlers are parked at their
\* file read, done or not started.  Every successful result is one that
\* predict_single and enhance_prediction_results give for the request's own
\* image.
C24_InferenceSerialised ==
    /\ Cardinality({ r \in Slots : req[r].pc \notin Parked }) <= 1
    /\ \A r \in Slots :
          /\ req[r].pc \notin Parked => running = r
          /\ (req[r].pc = "done" /\ req[r].endpoint \in {"classify", "url"}
                /\ req[r].resp.status = 200)
                => req[r].resp.body.data \in ResultsOf(req[r].files[1])
          /\ (req[r].pc = "done" /\ req[r].endpoint = "batch"
                /\ req[r].resp.status = 200)
                => \A n \in 1..Len(req[r].files) :
                      req[r].resp.body.data.results[n].success
                          => req[r].resp.body.data.results[n].results
                                 \in ResultsOf(req[r].files[n])

\* a cow and a buffalo classified in requests that overlapped
C24_Witness ==
    /\ req[1].endpoint = "classify" /\ req[1].pc = "done"
    /\ req[1].files[1].content = "cow"
    /\ req[1].resp.status = 200
    /\ req[1].resp.body.data["animal_type"]["prediction"] = "cattle"
    /\ req[2].endpoint = "classify" /\ req[2].pc = "enhance"
    /\ req[2].files[1].content = "buffalo"
    /\ req[2].predicted["animal_type"]["prediction"] = "buffalo"

\* C20: once startup_event has finished, no step of any request handler,
\* in any interleaving of the requests in flight, changes the model handle
\* or the state of the model behind it.
C20_ModelFrozenAfterStartup ==
    [][started => model' = model]_vars

\* a classification has been answered while another request was parked at
\* its read
C20_Witness ==
    /\ started /\ ModelInitialised
    /\ req[1].endpoint = "classify" /\ req[1].pc = "done"
    /\ req[1].resp.status = 200
    /\ req[2].endpoint = "batch" /\ req[2].pc = "read_wait"
    /\ req[2].i = 1 /\ Len(req[2].results) = 1

====
